---- MODULE Spec2Model ----
(***************************************************************************)
(* Verification model of the agent orchestration runtime                   *)
(* (backend/ai-services/src/agents).                                       *)
(*                                                                         *)
(* The module holds one state machine per component.  Every component has  *)
(* its own initial predicate, next-state relation and specification; the   *)
(* variables of the other components are frozen while one is explored.    *)
(*                                                                         *)
(*   SpecBreaker     CircuitBreaker            (execution_limiter.py)      *)
(*   SpecLimiter     ExecutionLimiter          (execution_limiter.py)      *)
(*   SpecManager     AgentManager.execute_agent (manager.py)               *)
(*   SpecBus         MessageBus                (communication.py)          *)
(*   SpecBroadcast   MessageBus fan-out, three agents                      *)
(*   SpecResponses, FairSpecWaiters  MessageBus with AgentProtocol         *)
(*                   callbacks and waiting senders (communication.py)      *)
(*   SpecLifecycle   LifecycleManager          (lifecycle.py)              *)
(*   SpecRecovery    LifecycleManager create/suspend/recover               *)
(*   SpecCheckpoints StatePersistence.create_checkpoint (lifecycle.py)     *)
(*   SpecRestore     StatePersistence.restore_checkpoint (lifecycle.py)    *)
(*   SpecRequirements, SpecPlanner  AgentPoolMaker planning                *)
(*                                            (agent_pool_maker.py)        *)
(*   SpecPool        dynamic pools (manager.py, agent_pool_maker.py)       *)
(*   SpecOrchestrator WorkflowOrchestrator     (orchestrator.py)           *)
(*   SpecDarwin      AgentDarwin.evolve_agent  (agent_darwin.py)           *)
(*   SpecRegistry    AgentManager.register_agent (manager.py)              *)
(***************************************************************************)
EXTENDS Integers, Sequences, FiniteSets, TLC

(***************************************************************************)
(* Bounds of the model.                                                    *)
(***************************************************************************)
\* concurrent callers of one CircuitBreaker
NumCalls == 2
\* last tick of the wall clock read by time.time()
MaxTime == 4
\* CircuitBreaker(failure_threshold=...), 3 in the tests, 5 in the manager
FailureThreshold == 2
\* CircuitBreaker(recovery_timeout=...), in clock ticks
RecoveryTimeout == 2
\* callers of ExecutionLimiter.execute_with_limits (distinct execution ids)
NumExecs == 3
\* ExecutionLimiter(max_concurrent_executions=...), 10 in the manager
MaxConcurrent == 2
\* ExecutionLimiter(history_size=...), 100 in the manager
HistorySize == 2
\* entries of context.previous_agents kept by execute_agent (20 in the source)
PreviousAgentsLimit == 2
\* execute calls (execute_agent and pool dispatches) begun in one behaviour
MaxIssued == 3
\* asyncio.Queue(maxsize=...) of an agent's inbound channel (100 in the source)
ChannelCapacity == 1
\* MessageBus(max_queue_size=...), the deque's maxlen (1000 by default)
MaxQueueSize == 2
\* messages sent in one behaviour
MaxSends == 3
\* callbacks registered for one agent
MaxCallbacks == 1
\* hooks registered for one lifecycle state
MaxHooks == 1
\* callbacks the AgentProtocol objects of one agent leave on the bus
MaxProtocols == 2

\* checkpoints kept per agent (10 in create_checkpoint, scaled)
CheckpointLimit == 2
\* create_checkpoint calls per agent
MaxCheckpoints == 4

\* specifications of one pool the factory fails to instantiate
MaxFailing == 1

\* evolve_agent calls that end with a candidate, in one behaviour
MaxCandidates == 2

\* AgentManager.max_agents (50 in the source)
MaxAgents == 3

VARIABLES
    \* ---- CircuitBreaker ----
    breaker,        \* [state, failure_count, last_failure_time] of the breaker
    now,            \* time.time(); starts at 1, so that 0 stands for None
    calls,          \* per caller of CircuitBreaker.call: pc, func's outcome, result
    streak,         \* history: expected failures since the last success
    last,           \* history: the last step a call took on the breaker
    \* ---- ExecutionLimiter ----
    sem_value,          \* self.semaphore._value
    sem_waiters,        \* self.semaphore._waiters, oldest first
    execs,              \* per execution id: where its execute_with_limits is
    active_executions,  \* self.active_executions (its keys)
    execution_history,  \* self.execution_history, oldest first
    finished,           \* the call that left execute_with_limits last, and how
    \* ---- AgentManager ----
    circuit_breakers,   \* self.circuit_breakers: agent name -> breaker
    requests,           \* per execution id: the execute call it belongs to
    previous_agents,    \* context.previous_agents of the shared context
    agent_result_cache, \* agents with a result in the cache (agent_result:*)
    issued,             \* history: execute calls begun so far
    \* ---- MessageBus ----
    running,            \* self.running (the dispatcher task exists)
    message_queue,      \* self.message_queue, oldest first
    channel_order,      \* keys of self.agent_channels, in insertion order
    agent_channels,     \* self.agent_channels: agent -> its queue, oldest first
    subscribers,        \* self.subscribers: agent -> list of callbacks
    response_of,        \* message id -> state of its future in pending_responses
    dispatcher,         \* where the _process_messages task is
    callback_tasks,     \* tasks created for callbacks, not yet run
    sent,               \* history: messages sent so far (the next id - 1)
    last_got,           \* history: <<recipient, sender>> -> last id dequeued
    discarded,          \* history: ids of the messages the full deque discarded
    \* ---- LifecycleManager ----
    agent_states,       \* self.agent_states: agent -> [lifecycle_state, status]
    agent_protocols,    \* self.agent_protocols: agent -> its AgentProtocol
    protocol_callbacks, \* the agent's callbacks on the bus, one per protocol made
    dependency_graph,   \* dependency_resolver.dependency_graph (REQUIRES)
    lifecycle_hooks,    \* self.lifecycle_hooks: state -> list of hooks
    persisted,          \* what save_state stored last for each agent
    store,              \* whether the stores answer
    last_event,         \* agent -> new_state of the last event broadcast for it
    changes,            \* history: the state changes of the operation done last
    \* StatePersistence.create_checkpoint (lifecycle.py:303-318)
    checkpoints,        \* agent -> agent_state.checkpoints, oldest first
    saved_checkpoints,  \* agent -> the checkpoints save_state stored last
    checkpoint_log,     \* history: agent -> every checkpoint created, in order
    cached,             \* agent -> the cache holds its agent_state:<id> entry
    restored,           \* agent -> what its last restore_checkpoint returned
    \* AgentPoolMaker planning (agent_pool_maker.py:234-396)
    determined,         \* the last determine_required_agents call: r and result
    planned,            \* the last planning: agents, dependencies and phases
    \* dynamic pool (manager.py:522-627, agent_pool_maker.py:485-691)
    created_agents,     \* the pool's specifications, in creation order
    dependencies,       \* agent -> spec.dependencies
    execution_plan,     \* execution_plan["phases"]
    active_agents,      \* pool_maker.active_agents (its keys)
    manager_agents,     \* the pool's agents registered in manager.agents
    pool_status,        \* dynamic_pools[pool_id]["status"], "none" before
    pool_run,           \* where execute_pool stands
    results,            \* execute_pool's results
    \* WorkflowOrchestrator (orchestrator.py:129-131)
    active_workflows,   \* self.active_workflows (its keys)
    workflow_agents,    \* self.workflow_agents: workflow -> agent ids
    workflow_contexts,  \* self.workflow_contexts (its keys)
    last_call,          \* history: the orchestrator call made last
    \* AgentDarwin (agent_darwin.py:129-131)
    performance_history,   \* self.performance_history: agent -> metrics
    evolution_candidates,  \* self.evolution_candidates, oldest first
    evolved,               \* agent -> what its last evolve_agent returned
    \* AgentManager.register_agent (manager.py:44-59, 213-232)
    agent_keys,            \* keys of self.agents, in the OrderedDict's order
    breaker_keys,          \* keys of self.circuit_breakers
    session_agent_cache,   \* sessions with a session_agent:<id> cache entry
    registration_order     \* history: held names, by their last registration

breakerVars == <<breaker, now, calls, streak, last>>
limiterVars == <<sem_value, sem_waiters, execs, active_executions,
                 execution_history, finished>>

managerVars == <<circuit_breakers, requests, previous_agents,
                 agent_result_cache, issued>>

busVars == <<running, message_queue, channel_order, agent_channels,
             subscribers, response_of, dispatcher, callback_tasks, sent,
             last_got, discarded>>

lifecycleVars == <<agent_states, agent_protocols, protocol_callbacks,
                   dependency_graph, lifecycle_hooks, persisted, store,
                   last_event, changes>>

checkpointVars == <<checkpoints, saved_checkpoints, checkpoint_log, cached,
                    restored>>

\* the components added to the five first ones
planVars == <<determined, planned>>

poolVars == <<created_agents, dependencies, execution_plan, active_agents,
              manager_agents, pool_status, pool_run, results>>

coreVars == <<breakerVars, limiterVars, managerVars, busVars, lifecycleVars>>

orchestratorVars == <<active_workflows, workflow_agents, workflow_contexts,
                      last_call>>

darwinVars == <<performance_history, evolution_candidates, evolved>>

registryVars == <<agent_keys, breaker_keys, session_agent_cache,
                  registration_order>>

otherVars == <<checkpointVars, planVars, poolVars, orchestratorVars,
               darwinVars, registryVars>>

\* what the steps of one component leave alone
nonBreakerVars == <<limiterVars, managerVars, busVars, lifecycleVars, otherVars>>
nonLimiterVars == <<breakerVars, managerVars, busVars, lifecycleVars, otherVars>>
\* (the manager drives the limiter and reads the clock)
nonManagerVars == <<breaker, calls, streak, last, busVars, lifecycleVars,
                    otherVars>>
nonBusVars == <<breakerVars, limiterVars, managerVars, lifecycleVars, otherVars>>
nonLifecycleVars == <<breakerVars, limiterVars, managerVars, busVars, otherVars>>
nonCheckpointVars == <<coreVars, planVars, poolVars, orchestratorVars,
                       darwinVars, registryVars>>
nonPlanVars == <<coreVars, checkpointVars, poolVars, orchestratorVars,
                 darwinVars, registryVars>>
nonPoolVars == <<coreVars, checkpointVars, planVars, orchestratorVars,
                 darwinVars, registryVars>>
nonDarwinVars == <<coreVars, checkpointVars, planVars, poolVars,
                   orchestratorVars, registryVars>>
nonRegistryVars == <<coreVars, checkpointVars, planVars, poolVars,
                     orchestratorVars, darwinVars>>
\* (the orchestrator drives the lifecycle manager)
nonOrchestratorVars == <<breakerVars, limiterVars, managerVars, busVars,
                         checkpointVars, planVars, poolVars, darwinVars,
                         registryVars>>

vars == <<breakerVars, limiterVars, managerVars, busVars, lifecycleVars,
          otherVars>>

(***************************************************************************)
(* CircuitBreaker (execution_limiter.py:206-260)                           *)
(***************************************************************************)
CallIds == 1..NumCalls

\* What the wrapped coroutine does once awaited: return, raise an exception of
\* the expected class, raise an exception of another class.
Outcomes == {"ok", "expected", "unexpected"}

\* CircuitBreaker.__init__: closed, no failure, last_failure_time None (0).
CircuitBreakerInit ==
    [state |-> "closed", failure_count |-> 0, last_failure_time |-> 0]

\* (mutant) the recovery timeout is never waited for
should_attempt_reset_always(b, t) == TRUE

\* CircuitBreaker._should_attempt_reset: last_failure_time is truthy and at
\* least recovery_timeout old.
should_attempt_reset(b, t) ==
    /\ b.last_failure_time # 0
    /\ t - b.last_failure_time >= RecoveryTimeout

\* (mutant) a success closes the circuit but keeps the failure count
on_success_keeps_count(b) == [b EXCEPT !.state = "closed"]

\* CircuitBreaker._on_success
on_success(b) == [b EXCEPT !.failure_count = 0, !.state = "closed"]

\* (mutant) the breaker opens only when the count equals the threshold
on_failure_opens_at_equal(b, t) ==
    LET n == b.failure_count + 1
    IN  [b EXCEPT !.failure_count = n,
                  !.last_failure_time = t,
                  !.state = IF n = FailureThreshold THEN "open" ELSE @]

\* (mutant) a failure is counted but never opens the circuit
on_failure_keeps_state(b, t) ==
    [b EXCEPT !.failure_count = b.failure_count + 1, !.last_failure_time = t]

\* CircuitBreaker._on_failure
on_failure(b, t) ==
    LET n == b.failure_count + 1
    IN  [b EXCEPT !.failure_count = n,
                  !.last_failure_time = t,
                  !.state = IF n >= FailureThreshold THEN "open" ELSE @]

\* (mutant) every exception is handled as an expected one
is_expected_any(outcome) == outcome # "ok"

\* `except self.expected_exception`: the handler takes only the expected class.
is_expected(outcome) == outcome = "expected"

\* The gate at the head of CircuitBreaker.call: the breaker after the gate,
\* for a call that is let through.
gate_admits(b, t) == b.state # "open" \/ should_attempt_reset(b, t)

after_gate(b, t) ==
    IF b.state = "open" /\ should_attempt_reset(b, t)
    THEN [b EXCEPT !.state = "half-open"]
    ELSE b

\* The breaker once the awaited function has finished with `outcome`:
\* _on_success on a return, _on_failure on an expected exception, nothing on
\* any other exception (it propagates past the except clause).
after_outcome(b, outcome, t) ==
    IF outcome = "ok" THEN on_success(b)
    ELSE IF is_expected(outcome) THEN on_failure(b, t)
    ELSE b

IdleCall == [pc |-> "idle", outcome |-> "none", result |-> "none"]

InitBreaker ==
    /\ breaker = CircuitBreakerInit
    /\ now = 1
    /\ calls = [c \in CallIds |-> IdleCall]
    /\ streak = 0
    /\ last = [kind |-> "none", call |-> 0, outcome |-> "none", pre |-> "closed"]

\* CircuitBreaker.call up to `await func(...)`: the gate lets the call through
\* and the wrapped function is invoked.
CallAdmitted(c, outcome) ==
    /\ calls[c].pc = "idle"
    /\ gate_admits(breaker, now)
    /\ breaker' = after_gate(breaker, now)
    /\ calls' = [calls EXCEPT ![c] = [pc |-> "running", outcome |-> outcome,
                                      result |-> "none"]]
    /\ last' = [kind |-> "admit", call |-> c, outcome |-> outcome,
                pre |-> breaker.state]
    /\ UNCHANGED <<now, streak>>
    /\ UNCHANGED nonBreakerVars

\* CircuitBreaker.call on an open circuit before the timeout: raises
\* Exception("Circuit breaker is open"); the wrapped function is not invoked.
CallRejected(c) ==
    /\ calls[c].pc = "idle"
    /\ ~gate_admits(breaker, now)
    /\ calls' = [calls EXCEPT ![c] = [pc |-> "idle", outcome |-> "none",
                                      result |-> "rejected"]]
    /\ last' = [kind |-> "reject", call |-> c, outcome |-> "none",
                pre |-> breaker.state]
    /\ UNCHANGED <<breaker, now, streak>>
    /\ UNCHANGED nonBreakerVars

\* CircuitBreaker.call from the end of `await func(...)` to its return or raise.
CallReturns(c) ==
    /\ calls[c].pc = "running"
    /\ breaker' = after_outcome(breaker, calls[c].outcome, now)
    /\ calls' = [calls EXCEPT ![c] = [pc |-> "idle", outcome |-> "none",
                                      result |-> calls[c].outcome]]
    /\ streak' = CASE calls[c].outcome = "ok" -> 0
                   [] calls[c].outcome = "expected" -> streak + 1
                   [] OTHER -> streak
    /\ last' = [kind |-> "return", call |-> c, outcome |-> calls[c].outcome,
                pre |-> breaker.state]
    /\ UNCHANGED now
    /\ UNCHANGED nonBreakerVars

\* time.time() advances.
Tick ==
    /\ now < MaxTime
    /\ now' = now + 1
    /\ UNCHANGED <<breaker, calls, streak, last>>
    /\ UNCHANGED nonBreakerVars

NextBreaker ==
    \/ \E c \in CallIds, o \in Outcomes : CallAdmitted(c, o)
    \/ \E c \in CallIds : CallRejected(c)
    \/ \E c \in CallIds : CallReturns(c)
    \/ Tick

(***************************************************************************)
(* ExecutionLimiter (execution_limiter.py:17-203)                          *)
(***************************************************************************)
ExecIds == 1..NumExecs

\* How the awaited function ends under asyncio.wait_for: it returns, the
\* timeout expires, or it raises.
ExecOutcomes == {"ok", "timeout", "error"}

\* No call has left execute_with_limits yet.
NoExecution == [execution_id |-> 0, outcome |-> "none"]

\* (mutant) the semaphore never refuses an acquire
locked_never(value, waiters) == FALSE

\* asyncio.Semaphore.locked(): no permit left, or somebody already waits.
locked(value, waiters) == value = 0 \/ Len(waiters) > 0

\* (mutant) a full history refuses the new entry instead of dropping the oldest
record_execution_keeps_oldest(history, id, success) ==
    IF Len(history) >= HistorySize
    THEN history
    ELSE Append(history, [execution_id |-> id, success |-> success])

\* ExecutionLimiter._record_execution: append to deque(maxlen=history_size),
\* which discards its oldest entry when full.
record_execution(history, id, success) ==
    LET h == Append(history, [execution_id |-> id, success |-> success])
    IN  IF Len(h) > HistorySize THEN Tail(h) ELSE h

InitLimiter ==
    /\ sem_value = MaxConcurrent
    /\ sem_waiters = <<>>
    /\ execs = [e \in ExecIds |-> "idle"]
    /\ active_executions = {}
    /\ execution_history = <<>>
    /\ finished = NoExecution

\* ExecutionLimiter._periodic_cleanup: when cleanup_interval has passed since
\* last_cleanup, the entries started more than an hour ago (stale) are purged
\* from active_executions; otherwise nothing (stale = {}).
periodic_cleanup(stale) == active_executions \ stale

\* Semaphore.acquire as entered by `async with self.semaphore`, after
\* _periodic_cleanup: with a free permit the caller goes on at once, tracks the
\* execution and starts the function; otherwise it queues behind the earlier
\* waiters and suspends in `await fut`.
limiter_enter(e, stale) ==
    IF ~locked(sem_value, sem_waiters)
    THEN /\ sem_value' = sem_value - 1
         /\ active_executions' = periodic_cleanup(stale) \cup {e}
         /\ execs' = [execs EXCEPT ![e] = "running"]
         /\ UNCHANGED <<sem_waiters, execution_history, finished>>
    ELSE /\ sem_waiters' = Append(sem_waiters, e)
         /\ active_executions' = periodic_cleanup(stale)
         /\ execs' = [execs EXCEPT ![e] = "waiting"]
         /\ UNCHANGED <<sem_value, execution_history, finished>>

\* The waiter woken by release() runs again: acquire returns, the execution is
\* tracked and the function started.
limiter_resume(e) ==
    /\ execs' = [execs EXCEPT ![e] = "running"]
    /\ active_executions' = active_executions \cup {e}
    /\ UNCHANGED <<sem_value, sem_waiters, execution_history, finished>>

\* execute_with_limits from the end of the awaited function to its return or
\* raise: the outcome is recorded, the tracking entry deleted (finally) and the
\* semaphore released (__aexit__): release() hands the permit to the first
\* waiter, or returns it to the counter.
limiter_exit(e, outcome) ==
    /\ execution_history' = record_execution(execution_history, e, outcome = "ok")
    /\ finished' = [execution_id |-> e, outcome |-> outcome]
    /\ active_executions' = active_executions \ {e}
    /\ IF Len(sem_waiters) > 0
       THEN /\ sem_waiters' = Tail(sem_waiters)
            /\ execs' = [execs EXCEPT ![e] = "idle",
                                      ![Head(sem_waiters)] = "woken"]
            /\ UNCHANGED sem_value
       ELSE /\ sem_value' = sem_value + 1
            /\ execs' = [execs EXCEPT ![e] = "idle"]
            /\ UNCHANGED sem_waiters

\* execute_with_limits called, a permit is free.
ExecStarts(e) ==
    /\ execs[e] = "idle"
    /\ ~locked(sem_value, sem_waiters)
    /\ \E stale \in SUBSET active_executions : limiter_enter(e, stale)
    /\ UNCHANGED nonLimiterVars

\* execute_with_limits called, no permit is free.
ExecWaits(e) ==
    /\ execs[e] = "idle"
    /\ locked(sem_value, sem_waiters)
    /\ \E stale \in SUBSET active_executions : limiter_enter(e, stale)
    /\ UNCHANGED nonLimiterVars

ExecResumes(e) ==
    /\ execs[e] = "woken"
    /\ limiter_resume(e)
    /\ UNCHANGED nonLimiterVars

ExecFinishes(e, outcome) ==
    /\ execs[e] = "running"
    /\ limiter_exit(e, outcome)
    /\ UNCHANGED nonLimiterVars

NextLimiter ==
    \/ \E e \in ExecIds : ExecStarts(e)
    \/ \E e \in ExecIds : ExecWaits(e)
    \/ \E e \in ExecIds : ExecResumes(e)
    \/ \E e \in ExecIds, o \in ExecOutcomes : ExecFinishes(e, o)

(***************************************************************************)
(* AgentManager.execute_agent (manager.py:238-322) and the pool maker's    *)
(* AgentPoolMaker._execute_single_agent (agent_pool_maker.py:655-691)      *)
(***************************************************************************)
\* Names of the agents registered with the manager; create_dynamic_pool
\* registers the agents of a pool there too (manager.py:562-563), so one
\* agent object is reachable from the manager and from the pool maker.
Agents == {"chat", "writer"}

IdleRequest == [pc |-> "idle", agent |-> "none", via |-> "none"]

\* The execution id of a new call: `f"{name}_{uuid4().hex[:8]}"` is fresh; the
\* model hands out the lowest id no call in progress holds.
FreshId(r) == /\ requests[r].pc = "idle"
              /\ \A q \in ExecIds : requests[q].pc = "idle" => r <= q

InitManager ==
    /\ circuit_breakers = [a \in Agents |-> CircuitBreakerInit]
    /\ requests = [r \in ExecIds |-> IdleRequest]
    /\ previous_agents = <<>>
    /\ agent_result_cache = {}
    /\ issued = 0

\* manager.py:254-259: a history longer than the limit is cut to its last
\* entries, then the agent's name is appended.
limit_previous_agents(prev, name) ==
    LET p == IF Len(prev) > PreviousAgentsLimit
             THEN SubSeq(prev, Len(prev) - PreviousAgentsLimit + 1, Len(prev))
             ELSE prev
    IN  Append(p, name)

\* How the breaker of the manager sees the end of execute_with_limits: the
\* breakers are built with the default expected_exception=Exception
\* (manager.py:227-230), which TimeoutError and every raised error match.
breaker_outcome(outcome) == IF outcome = "ok" THEN "ok" ELSE "expected"

\* execute_agent up to `await self.cache.get_agent_result(...)`.
ExecuteAgentCalled(r, a) ==
    /\ FreshId(r)
    /\ issued < MaxIssued
    /\ issued' = issued + 1
    /\ requests' = [requests EXCEPT ![r] = [pc |-> "cache", agent |-> a,
                                            via |-> "manager"]]
    /\ previous_agents' = limit_previous_agents(previous_agents, a)
    /\ UNCHANGED <<circuit_breakers, agent_result_cache>>
    /\ UNCHANGED <<limiterVars, now, nonManagerVars>>

\* The cache holds a result: execute_agent returns it, nothing is executed.
ExecuteAgentCached(r) ==
    /\ requests[r].pc = "cache"
    /\ requests[r].agent \in agent_result_cache
    /\ requests' = [requests EXCEPT ![r] = IdleRequest]
    /\ UNCHANGED <<circuit_breakers, previous_agents, agent_result_cache, issued>>
    /\ UNCHANGED <<limiterVars, now, nonManagerVars>>

\* Cache miss, the agent's circuit is open: circuit_breaker.call raises, the
\* handler at manager.py:316 turns it into a failed AgentResult.
ExecuteAgentRejected(r) ==
    /\ requests[r].pc = "cache"
    /\ requests[r].agent \notin agent_result_cache
    /\ ~gate_admits(circuit_breakers[requests[r].agent], now)
    /\ requests' = [requests EXCEPT ![r] = IdleRequest]
    /\ UNCHANGED <<circuit_breakers, previous_agents, agent_result_cache, issued>>
    /\ UNCHANGED <<limiterVars, now, nonManagerVars>>

\* Cache miss, the breaker lets the call through: circuit_breaker.call awaits
\* execute_with_limits(execution_id, agent.execute, ...).
ExecuteAgentAdmitted(r) ==
    LET a == requests[r].agent IN
    /\ requests[r].pc = "cache"
    /\ a \notin agent_result_cache
    /\ gate_admits(circuit_breakers[a], now)
    /\ circuit_breakers' = [circuit_breakers EXCEPT
                               ![a] = after_gate(circuit_breakers[a], now)]
    /\ \E stale \in SUBSET active_executions : limiter_enter(r, stale)
    /\ requests' = [requests EXCEPT ![r].pc = "limiter"]
    /\ UNCHANGED <<previous_agents, agent_result_cache, issued>>
    /\ UNCHANGED <<now, nonManagerVars>>

\* AgentPoolMaker._execute_single_agent, as dispatched by _execute_parallel
\* and _execute_sequential: execute_with_limits on the agent, no breaker.
PoolDispatches(r, a) ==
    /\ FreshId(r)
    /\ issued < MaxIssued
    /\ issued' = issued + 1
    /\ \E stale \in SUBSET active_executions : limiter_enter(r, stale)
    /\ requests' = [requests EXCEPT ![r] = [pc |-> "limiter", agent |-> a,
                                            via |-> "pool"]]
    /\ UNCHANGED <<circuit_breakers, previous_agents, agent_result_cache>>
    /\ UNCHANGED <<now, nonManagerVars>>

\* A request that waited for a permit goes on and starts agent.execute.
ExecutionResumes(r) ==
    /\ requests[r].pc = "limiter"
    /\ execs[r] = "woken"
    /\ limiter_resume(r)
    /\ UNCHANGED <<managerVars, now, nonManagerVars>>

\* agent.execute of a manager request ends: the limiter records it and
\* releases the permit, the breaker counts the outcome, and a successful
\* result is stored in the cache (manager.py:292-307).
ExecuteAgentFinishes(r, outcome) ==
    LET a == requests[r].agent IN
    /\ requests[r].pc = "limiter" /\ requests[r].via = "manager"
    /\ execs[r] = "running"
    /\ limiter_exit(r, outcome)
    /\ circuit_breakers' = [circuit_breakers EXCEPT
          ![a] = after_outcome(circuit_breakers[a], breaker_outcome(outcome), now)]
    /\ agent_result_cache' = IF outcome = "ok" THEN agent_result_cache \cup {a}
                             ELSE agent_result_cache
    /\ requests' = [requests EXCEPT ![r] = IdleRequest]
    /\ UNCHANGED <<previous_agents, issued, now, nonManagerVars>>

\* agent.execute of a pool request ends.
PoolExecutionFinishes(r, outcome) ==
    /\ requests[r].pc = "limiter" /\ requests[r].via = "pool"
    /\ execs[r] = "running"
    /\ limiter_exit(r, outcome)
    /\ requests' = [requests EXCEPT ![r] = IdleRequest]
    /\ UNCHANGED <<circuit_breakers, previous_agents, agent_result_cache, issued>>
    /\ UNCHANGED <<now, nonManagerVars>>

\* A cached result expires (TTL of agent results).
CacheExpires(a) ==
    /\ a \in agent_result_cache
    /\ agent_result_cache' = agent_result_cache \ {a}
    /\ UNCHANGED <<circuit_breakers, requests, previous_agents, issued>>
    /\ UNCHANGED <<limiterVars, now, nonManagerVars>>

NextManager ==
    \/ \E r \in ExecIds, a \in Agents : ExecuteAgentCalled(r, a)
    \/ \E r \in ExecIds : ExecuteAgentCached(r)
    \/ \E r \in ExecIds : ExecuteAgentRejected(r)
    \/ \E r \in ExecIds : ExecuteAgentAdmitted(r)
    \/ \E r \in ExecIds, a \in Agents : PoolDispatches(r, a)
    \/ \E r \in ExecIds : ExecutionResumes(r)
    \/ \E r \in ExecIds, o \in ExecOutcomes : ExecuteAgentFinishes(r, o)
    \/ \E r \in ExecIds, o \in ExecOutcomes : PoolExecutionFinishes(r, o)
    \/ \E a \in Agents : CacheExpires(a)
    \/ Tick

(***************************************************************************)
(* MessageBus (communication.py:90-230)                                    *)
(***************************************************************************)
\* the agents that register with the bus, and everybody who sends
BusAgents == {"A", "B", "D"}
Senders == {"A", "C"}
MsgIds == 1..MaxSends

\* The messages the senders build: direct requests (with and without
\* requires_response) and an event with an empty recipient.
MessageTemplates ==
    { [sender |-> "A", recipient |-> "B", type |-> "request", requires_response |-> FALSE],
      [sender |-> "A", recipient |-> "B", type |-> "request", requires_response |-> TRUE],
      [sender |-> "C", recipient |-> "A", type |-> "request", requires_response |-> FALSE],
      [sender |-> "C", recipient |-> "", type |-> "event", requires_response |-> FALSE] }

\* What register_agent is given as callback: none, or the _handle_message of
\* an AgentProtocol (or of a second one of the same agent) with a handler
\* registered for the message's type.
CallbackKinds == {"handler", "other_handler"}
\* the calls of register_agent: agent B comes with or without a callback
RegisterInputs == {<<"A", "none">>, <<"B", "none">>, <<"B", "handler">>}

\* The messages that are fanned out: an event whose recipient broadcast() has
\* cleared and a message of type BROADCAST that names a recipient; with them
\* a direct request, which fills a queue.
FanoutTemplates ==
    { [sender |-> "C", recipient |-> "", type |-> "event", requires_response |-> FALSE],
      [sender |-> "A", recipient |-> "B", type |-> "broadcast", requires_response |-> FALSE],
      [sender |-> "C", recipient |-> "A", type |-> "request", requires_response |-> FALSE] }

IdleDispatcher ==
    [pc |-> "idle", msg |-> 0, target |-> "",
     iterating |-> FALSE, keys |-> <<>>, orphaned |-> FALSE]

Registered == {channel_order[i] : i \in 1..Len(channel_order)}

InitBus ==
    /\ running = FALSE
    /\ message_queue = <<>>
    /\ channel_order = <<>>
    /\ agent_channels = [a \in BusAgents |-> <<>>]
    /\ subscribers = [a \in BusAgents |-> <<>>]
    /\ response_of = [i \in MsgIds |-> "none"]
    /\ dispatcher = IdleDispatcher
    /\ callback_tasks = {}
    /\ sent = 0
    /\ last_got = [p \in BusAgents \X Senders |-> 0]
    /\ discarded = {}

\* (mutant) a deque without maxlen
deque_append_unbounded(q, m) == Append(q, m)

\* deque(maxlen=max_queue_size).append: a full deque discards its oldest
\* (leftmost) element.
deque_append(q, m) ==
    IF Len(q) >= MaxQueueSize THEN Append(Tail(q), m) ELSE Append(q, m)

\* (mutant) the dispatcher takes the newest message
next_message_newest(q) == Len(q)

\* message_queue.popleft(): the position of the message taken next.
next_message(q) == 1

RemoveAt(q, i) == SubSeq(q, 1, i - 1) \o SubSeq(q, i + 1, Len(q))

\* _route_message: fan out when the recipient is empty or the type is BROADCAST.
is_broadcast(m) == m.recipient = "" \/ m.type = "broadcast"

\* `await queue.put(message)` on asyncio.Queue(maxsize=100): put() suspends
\* while the queue is full (QueueFull is raised by put_nowait only).
queue_full_blocks(q) == Len(q) >= ChannelCapacity

\* The tasks _deliver_to_agent creates for the callbacks of agent t.
tasks_for(t, m, subs) ==
    { [agent |-> t, id |-> m.id, n |-> i, kind |-> subs[t][i],
       requires_response |-> m.requires_response] : i \in 1..Len(subs[t]) }

\* _route_message from one target on: _deliver_to_agent for each target in
\* turn.  A target that is not registered is skipped with a warning; a full
\* queue suspends the dispatcher inside put(), the iterator over
\* agent_channels.keys() holding on to the dict as it was (keys).
RECURSIVE deliver_all(_, _, _, _, _, _)
deliver_all(m, targets, chans, tasks, iterating, keys) ==
    IF targets = <<>>
    THEN [chans |-> chans, tasks |-> tasks, disp |-> IdleDispatcher]
    ELSE LET t == Head(targets) IN
         IF t \notin Registered
         THEN deliver_all(m, Tail(targets), chans, tasks, iterating, keys)
         ELSE IF queue_full_blocks(chans[t])
         THEN [chans |-> chans, tasks |-> tasks,
               disp |-> [pc |-> "blocked", msg |-> m, target |-> t,
                         iterating |-> iterating,
                         keys |-> keys, orphaned |-> FALSE]]
         ELSE deliver_all(m, Tail(targets),
                          [chans EXCEPT ![t] = Append(@, m)],
                          tasks \cup tasks_for(t, m, subscribers), iterating,
                          keys)

\* The targets of a message: every registered agent but the sender, in the
\* order of the dict's keys, or the one recipient.
targets_of(m) ==
    IF is_broadcast(m)
    THEN SelectSeq(channel_order, LAMBDA a : a # m.sender)
    ELSE <<m.recipient>>

\* MessageBus.start: the dispatcher task is created.  start is called once, by
\* the orchestrator's initialize (orchestrator.py:135).
BusStart ==
    /\ ~running
    /\ running' = TRUE
    /\ UNCHANGED <<message_queue, channel_order, agent_channels, subscribers,
                   response_of, dispatcher, callback_tasks, sent, last_got>>
    /\ UNCHANGED <<discarded, nonBusVars>>

\* MessageBus.register_agent(agent_id, callback): a queue is created for an
\* agent that has none; a callback, when given, is appended to the agent's
\* list.
RegisterAgent(a, cb) ==
    /\ cb \in CallbackKinds =>
          Cardinality({i \in DOMAIN subscribers[a] : subscribers[a][i] = cb})
              < MaxCallbacks
    /\ channel_order' = IF a \in Registered THEN channel_order
                        ELSE Append(channel_order, a)
    /\ subscribers' = IF cb \in CallbackKinds
                      THEN [subscribers EXCEPT ![a] = Append(@, cb)]
                      ELSE subscribers
    /\ UNCHANGED <<running, message_queue, agent_channels, response_of,
                   dispatcher, callback_tasks, sent, last_got>>
    /\ UNCHANGED <<discarded, nonBusVars>>

\* MessageBus.unregister_agent: the agent's queue and callbacks are deleted.
\* A dispatcher suspended in put() on that queue keeps the deleted queue
\* object, which nobody reads any more.
UnregisterAgent(a) ==
    /\ a \in Registered
    /\ channel_order' = SelectSeq(channel_order, LAMBDA x : x # a)
    /\ agent_channels' = [agent_channels EXCEPT ![a] = <<>>]
    /\ subscribers' = [subscribers EXCEPT ![a] = <<>>]
    /\ dispatcher' = IF dispatcher.pc = "blocked"
                     THEN [dispatcher EXCEPT
                             !.orphaned = @ \/ dispatcher.target = a]
                     ELSE dispatcher
    /\ UNCHANGED <<running, message_queue, response_of, callback_tasks, sent,
                   last_got>>
    /\ UNCHANGED <<discarded, nonBusVars>>

\* MessageBus.send_message (and broadcast, which clears the recipient first):
\* the message is appended to the outbound deque; with requires_response a
\* future is stored under the message's id and awaited.
SendMessage(t) ==
    /\ sent < MaxSends
    /\ sent' = sent + 1
    /\ message_queue' = deque_append(message_queue,
            [id |-> sent + 1, sender |-> t.sender, recipient |-> t.recipient,
             type |-> t.type, requires_response |-> t.requires_response])
    /\ response_of' = IF t.requires_response
                      THEN [response_of EXCEPT ![sent + 1] = "pending"]
                      ELSE response_of
    /\ discarded' = IF Len(message_queue) >= MaxQueueSize
                    THEN discarded \cup {Head(message_queue).id}
                    ELSE discarded
    /\ UNCHANGED <<running, channel_order, agent_channels, subscribers,
                   dispatcher, callback_tasks, last_got>>
    /\ UNCHANGED nonBusVars

\* One turn of _process_messages: the next message is taken from the deque
\* and routed; the turn ends when every target is served or inside a put()
\* on a full queue.
DispatcherRoutes ==
    /\ running
    /\ dispatcher.pc = "idle"
    /\ message_queue # <<>>
    /\ LET i == next_message(message_queue)
           m == message_queue[i]
           r == deliver_all(m, targets_of(m), agent_channels, callback_tasks,
                            is_broadcast(m), channel_order)
       IN  /\ message_queue' = RemoveAt(message_queue, i)
           /\ agent_channels' = r.chans
           /\ callback_tasks' = r.tasks
           /\ dispatcher' = r.disp
    /\ UNCHANGED <<running, channel_order, subscribers, response_of, sent,
                   last_got>>
    /\ UNCHANGED <<discarded, nonBusVars>>

\* The keys of agent_channels that follow agent t in the dict's order.
keys_after(t) ==
    LET i == CHOOSE k \in DOMAIN channel_order : channel_order[k] = t
    IN  SubSeq(channel_order, i + 1, Len(channel_order))

\* The put() the dispatcher is suspended in completes once the queue has
\* room: the message is enqueued and the callbacks are started.  In a fan-out
\* the loop over agent_channels.keys() then goes on with the keys that follow,
\* and raises RuntimeError (caught and logged by _process_messages) when the
\* dict has another size than when the loop began.
DispatcherResumes ==
    /\ dispatcher.pc = "blocked"
    /\ ~dispatcher.orphaned
    /\ ~queue_full_blocks(agent_channels[dispatcher.target])
    /\ LET m == dispatcher.msg
           t == dispatcher.target
           chans == [agent_channels EXCEPT ![t] = Append(@, m)]
           tasks == callback_tasks \cup tasks_for(t, m, subscribers)
           r == IF ~dispatcher.iterating
                   \/ Len(channel_order) # Len(dispatcher.keys)
                THEN [chans |-> chans, tasks |-> tasks, disp |-> IdleDispatcher]
                ELSE deliver_all(m, SelectSeq(keys_after(t),
                                              LAMBDA a : a # m.sender),
                                 chans, tasks, TRUE, dispatcher.keys)
       IN  /\ agent_channels' = r.chans
           /\ callback_tasks' = r.tasks
           /\ dispatcher' = r.disp
    /\ UNCHANGED <<running, message_queue, channel_order, subscribers,
                   response_of, sent, last_got>>
    /\ UNCHANGED <<discarded, nonBusVars>>

\* One queue.get() of MessageBus.get_messages(a): the oldest message of the
\* agent's queue is returned next.
GetMessage(a) ==
    /\ a \in Registered
    /\ agent_channels[a] # <<>>
    /\ LET m == Head(agent_channels[a])
       IN  last_got' = [last_got EXCEPT ![<<a, m.sender>>] = m.id]
    /\ agent_channels' = [agent_channels EXCEPT ![a] = Tail(@)]
    /\ UNCHANGED <<running, message_queue, channel_order, subscribers,
                   response_of, dispatcher, callback_tasks, sent>>
    /\ UNCHANGED <<discarded, nonBusVars>>

\* (mutant) the response sent last replaces the one the sender has
send_response_last_wins(resp, id, r) ==
    IF resp[id] \in {"pending"} \cup CallbackKinds
    THEN [resp EXCEPT ![id] = r] ELSE resp

\* MessageBus.send_response: a pending future is completed with the response
\* (named after the protocol that sends it) and forgotten; for any other id
\* nothing happens.
send_response(resp, id, r) ==
    IF resp[id] = "pending" THEN [resp EXCEPT ![id] = r] ELSE resp

\* A callback task runs (AgentProtocol._handle_message): with a handler for
\* the message's type and requires_response set, the handler's result is sent
\* as the response.
CallbackRuns(task) ==
    /\ task \in callback_tasks
    /\ callback_tasks' = callback_tasks \ {task}
    /\ response_of' = IF task.kind \in CallbackKinds /\ task.requires_response
                      THEN send_response(response_of, task.id, task.kind)
                      ELSE response_of
    /\ UNCHANGED <<running, message_queue, channel_order, agent_channels,
                   subscribers, dispatcher, sent, last_got>>
    /\ UNCHANGED <<discarded, nonBusVars>>

\* (mutant) the wait ends only for a message that reached a queue
ResponseTimeoutDelivered(id) ==
    /\ response_of[id] = "pending"
    /\ \E a \in BusAgents : \E i \in DOMAIN agent_channels[a] :
          agent_channels[a][i].id = id
    /\ response_of' = [response_of EXCEPT ![id] = "timeout"]
    /\ UNCHANGED <<running, message_queue, channel_order, agent_channels,
                   subscribers, dispatcher, callback_tasks, sent, last_got>>
    /\ UNCHANGED <<discarded, nonBusVars>>

\* asyncio.wait_for(future, timeout=30.0) expires in send_message: the entry
\* of pending_responses is deleted and None returned.
ResponseTimeout(id) ==
    /\ response_of[id] = "pending"
    /\ response_of' = [response_of EXCEPT ![id] = "timeout"]
    /\ UNCHANGED <<running, message_queue, channel_order, agent_channels,
                   subscribers, dispatcher, callback_tasks, sent, last_got>>
    /\ UNCHANGED <<discarded, nonBusVars>>

NextBus ==
    \/ BusStart
    \/ \E i \in RegisterInputs : RegisterAgent(i[1], i[2])
    \/ \E a \in BusAgents : UnregisterAgent(a)
    \/ \E t \in MessageTemplates : SendMessage(t)
    \/ DispatcherRoutes
    \/ DispatcherResumes
    \/ \E a \in BusAgents : GetMessage(a)
    \/ \E task \in callback_tasks : CallbackRuns(task)
    \/ \E id \in MsgIds : ResponseTimeout(id)

\* The bus with the requests that wait for a response: agent B is registered
\* by one AgentProtocol and by a second one, D is never registered.
ResponderInputs == {<<"B", "handler">>, <<"B", "other_handler">>}
RequestTemplates ==
    { [sender |-> "A", recipient |-> "B", type |-> "request", requires_response |-> TRUE],
      [sender |-> "A", recipient |-> "D", type |-> "request", requires_response |-> TRUE] }

NextResponses ==
    \/ BusStart
    \/ \E i \in ResponderInputs : RegisterAgent(i[1], i[2])
    \/ \E a \in BusAgents : UnregisterAgent(a)
    \/ \E t \in RequestTemplates : SendMessage(t)
    \/ DispatcherRoutes
    \/ DispatcherResumes
    \/ \E a \in BusAgents : GetMessage(a)
    \/ \E task \in callback_tasks : CallbackRuns(task)
    \/ \E id \in MsgIds : ResponseTimeout(id)

\* The bus with the senders that wait: the requests of RequestTemplates and
\* agent B, registered by its AgentProtocol.
NextWaiters ==
    \/ BusStart
    \/ RegisterAgent("B", "handler")
    \/ \E a \in BusAgents : UnregisterAgent(a)
    \/ \E t \in RequestTemplates : SendMessage(t)
    \/ DispatcherRoutes
    \/ DispatcherResumes
    \/ \E a \in BusAgents : GetMessage(a)
    \/ \E task \in callback_tasks : CallbackRuns(task)
    \/ \E id \in MsgIds : ResponseTimeout(id)

\* The bus with three agents that register without a callback, and the
\* messages of FanoutTemplates.
NextBroadcast ==
    \/ BusStart
    \/ \E a \in BusAgents : RegisterAgent(a, "none")
    \/ \E a \in BusAgents : UnregisterAgent(a)
    \/ \E t \in FanoutTemplates : SendMessage(t)
    \/ DispatcherRoutes
    \/ DispatcherResumes
    \/ \E a \in BusAgents : GetMessage(a)

(***************************************************************************)
(* LifecycleManager (lifecycle.py:333-565)                                 *)
(*                                                                         *)
(* Every operation is one step.  An operation is computed on a record of   *)
(* the manager's fields (LcFields) by the operators below, which return    *)
(* the fields they leave behind and whether they raised.                   *)
(***************************************************************************)
LcAgents == {"a1", "a2"}

\* LifecycleState; "absent" stands for an id that is not a key of the dict.
LifecycleStates ==
    {"created", "initializing", "ready", "running", "paused", "suspended",
     "terminating", "terminated", "error"}

AbsentState == [lifecycle_state |-> "absent", status |-> "idle"]

\* the hooks register_lifecycle_hook is given: one that returns and one that
\* raises, both for RUNNING
HookKinds == {"ok", "raises"}
HookStates == {"running"}
\* what create_agent is given as dependencies (REQUIRES): a2 requires a1
DependenciesOf == [a \in LcAgents |-> IF a = "a2" THEN {"a1"} ELSE {}]
\* a2, which requires a1, is created, started and terminated; a1 is the
\* subject of every operation
Subjects == {"a1"}
StoreStates == {"up", "down"}

InitLifecycle ==
    /\ agent_states = [a \in LcAgents |-> AbsentState]
    /\ agent_protocols = [a \in LcAgents |-> "none"]
    /\ protocol_callbacks = [a \in LcAgents |-> <<>>]
    /\ dependency_graph = [a \in LcAgents |-> {}]
    /\ lifecycle_hooks = [st \in LifecycleStates |-> <<>>]
    /\ persisted = [a \in LcAgents |-> AbsentState]
    /\ store = "up"
    /\ last_event = [a \in LcAgents |-> ""]
    /\ changes = <<>>

\* the manager's fields at the start of an operation
LcFields ==
    [agent_states |-> agent_states, agent_protocols |-> agent_protocols,
     protocol_callbacks |-> protocol_callbacks,
     dependency_graph |-> dependency_graph, persisted |-> persisted,
     last_event |-> last_event, changes |-> <<>>]

LcApply(m) ==
    /\ agent_states' = m.agent_states
    /\ agent_protocols' = m.agent_protocols
    /\ protocol_callbacks' = m.protocol_callbacks
    /\ dependency_graph' = m.dependency_graph
    /\ persisted' = m.persisted
    /\ last_event' = m.last_event
    /\ changes' = m.changes
    /\ UNCHANGED <<lifecycle_hooks, store>>
    /\ UNCHANGED nonLifecycleVars

Raised(m) == [m |-> m, raised |-> TRUE]
Returned(m) == [m |-> m, raised |-> FALSE]

\* _is_valid_transition: the table valid_transitions.
valid_transitions(from) ==
    CASE from = "created" -> {"initializing", "error"}
      [] from = "initializing" -> {"ready", "error"}
      [] from = "ready" -> {"running", "paused", "terminating"}
      [] from = "running" -> {"ready", "paused", "suspended", "terminating", "error"}
      [] from = "paused" -> {"running", "ready", "terminating"}
      [] from = "suspended" -> {"ready", "terminating"}
      [] from = "terminating" -> {"terminated"}
      [] from = "error" -> {"ready", "terminating"}
      [] from = "terminated" -> {}
      [] OTHER -> {}

\* StatePersistence.save_state: the state is written to the cache, the
\* database and the checkpoint file; an exception of a store is logged and
\* raised again.  The stores fail together here: the cache logs its error
\* and holds nothing new, the database raises and nothing is stored.
save_state(m, a) ==
    IF store = "down" THEN Raised(m)
    ELSE Returned([m EXCEPT !.persisted[a] = m.agent_states[a]])

\* StatePersistence.load_state: the state stored last (the cache entry, else
\* the database row, else the checkpoint file); None ("absent") when nothing
\* is stored or a store raises.
load_state(m, a) ==
    IF store = "down" THEN AbsentState ELSE m.persisted[a]

hook_raises(st) == \E i \in 1..Len(lifecycle_hooks[st]) : lifecycle_hooks[st][i] = "raises"

\* LifecycleManager.transition_state: the state is validated and set, then the
\* hooks of the new state run, the transition is broadcast through the agent's
\* protocol and the state is saved.  Whatever raises on the way leaves the new
\* state in memory.
transition_state(m, a, new) ==
    LET old == m.agent_states[a].lifecycle_state
        m1 == [m EXCEPT !.agent_states[a].lifecycle_state = new,
                        !.changes = Append(@, <<a, old, new>>)]
        m2 == [m1 EXCEPT !.last_event[a] = new]
    IN  IF old = "absent" THEN Raised(m)
        ELSE IF new \notin valid_transitions(old) THEN Raised(m)
        ELSE IF hook_raises(new) THEN Raised(m1)
        ELSE IF m.agent_protocols[a] = "none" THEN Raised(m1)
        ELSE save_state(m2, a)

\* The tail of start_agent, pause_agent, resume_agent and suspend_agent: after
\* the transition the status is set and the state saved once more.
with_status(r, a, status) ==
    IF r.raised THEN r
    ELSE IF r.m.agent_states[a].lifecycle_state = "absent" THEN r
    ELSE save_state([r.m EXCEPT !.agent_states[a].status = status], a)

\* AgentProtocol(agent_id, message_bus): the constructor registers the new
\* protocol's _handle_message on the bus; the protocol has no handlers yet.
new_protocol(m, a) ==
    [m EXCEPT !.agent_protocols[a] = "bare",
              !.protocol_callbacks[a] = Append(@, "bare")]

\* DependencyResolver.get_required_agents: everything reachable in the
\* dependency graph.
RECURSIVE required_from(_, _, _)
required_from(graph, frontier, seen) ==
    IF frontier = {} THEN seen
    ELSE LET next == UNION {graph[x] : x \in frontier}
         IN  required_from(graph, next \ seen, seen \cup next)

get_required_agents(m, a) == required_from(m.dependency_graph, {a}, {})

\* DependencyResolver.can_terminate: no active agent requires this one.
can_terminate(m, a) ==
    LET active == {x \in LcAgents :
                     m.agent_states[x].lifecycle_state \in {"ready", "running"}}
    IN  {x \in active : a \in m.dependency_graph[x]} = {}

\* protocol.register_handler(MessageType.REQUEST, handle_execute) at the end
\* of _initialize_agent: the agent's newest protocol answers requests.
register_handler(m, a) ==
    [m EXCEPT !.agent_protocols[a] = "handlers",
              !.protocol_callbacks[a] = [@ EXCEPT ![Len(@)] = "handlers"]]

\* LifecycleManager.create_agent with _initialize_agent.
create_agent(m, a) ==
    LET m0 == new_protocol(
                [m EXCEPT !.agent_states[a] =
                              [lifecycle_state |-> "created", status |-> "idle"],
                          !.dependency_graph[a] = @ \cup DependenciesOf[a]], a)
        r1 == transition_state(m0, a, "initializing")
        ready == \A x \in get_required_agents(r1.m, a) :
                    r1.m.agent_states[x].lifecycle_state \in {"ready", "running"}
        r2 == transition_state(register_handler(r1.m, a), a, "ready")
        r3 == save_state(r2.m, a)
    IN  IF r1.raised THEN r1
        ELSE IF ~ready THEN Raised(transition_state(r1.m, a, "error").m)
        ELSE IF r2.raised THEN Raised(transition_state(r2.m, a, "error").m)
        ELSE IF r3.raised THEN Raised(transition_state(r3.m, a, "error").m)
        ELSE r3

\* LifecycleManager.terminate_agent.
terminate_agent(m, a, force) ==
    LET r1 == transition_state(m, a, "terminating")
        m2 == IF r1.m.agent_protocols[a] # "none"
              THEN [r1.m EXCEPT !.agent_protocols[a] = "none",
                                !.protocol_callbacks[a] = <<>>]
              ELSE r1.m
        r2 == transition_state(m2, a, "terminated")
        r3 == with_status(r2, a, "completed")
    IN  IF ~force /\ ~can_terminate(m, a) THEN Raised(m)
        ELSE IF r1.raised THEN r1
        ELSE IF r2.raised THEN r2
        ELSE IF r3.raised THEN r3
        ELSE IF r3.m.agent_states[a].lifecycle_state = "absent" THEN r3
        ELSE Returned([r3.m EXCEPT !.agent_states[a] = AbsentState])

\* LifecycleManager.recover_agent: the loaded state replaces the entry of
\* agent_states, a new protocol is made, and the agent is moved to READY.
recover_agent(m, a) ==
    LET loaded == load_state(m, a)
        old == m.agent_states[a].lifecycle_state
        m1 == [m EXCEPT !.agent_states[a] = loaded,
                        !.changes = IF old # "absent" /\ old # loaded.lifecycle_state
                                    THEN Append(@, <<a, old, loaded.lifecycle_state>>)
                                    ELSE @]
    IN  IF loaded = AbsentState THEN Returned(m)
        ELSE transition_state(new_protocol(m1, a), a, "ready")

\* create_agent names the agent with a fresh uuid: an id is created once.
CreateAgent(a) ==
    /\ agent_states[a] = AbsentState
    /\ persisted[a] = AbsentState
    /\ Len(protocol_callbacks[a]) < MaxProtocols
    /\ LcApply(create_agent(LcFields, a).m)

TransitionState(a, new) ==
    /\ new \in LifecycleStates
    /\ LcApply(transition_state(LcFields, a, new).m)

StartAgent(a) ==
    /\ a \in LcAgents
    /\ LcApply(with_status(transition_state(LcFields, a, "running"), a, "running").m)

PauseAgent(a) ==
    /\ a \in LcAgents
    /\ LcApply(with_status(transition_state(LcFields, a, "paused"), a, "idle").m)

\* resume_agent does nothing unless the agent is PAUSED.
ResumeAgent(a) ==
    /\ agent_states[a].lifecycle_state = "paused"
    /\ LcApply(with_status(transition_state(LcFields, a, "running"), a, "running").m)

SuspendAgent(a) ==
    /\ a \in LcAgents
    /\ LcApply(with_status(transition_state(LcFields, a, "suspended"), a, "failed").m)

TerminateAgent(a, force) ==
    /\ force \in BOOLEAN
    /\ LcApply(terminate_agent(LcFields, a, force).m)

RecoverAgent(a) ==
    /\ Len(protocol_callbacks[a]) < MaxProtocols
    /\ LcApply(recover_agent(LcFields, a).m)

\* register_lifecycle_hook: the hook is appended to the state's list.
RegisterLifecycleHook(st, kind) ==
    /\ Len(lifecycle_hooks[st]) < MaxHooks
    /\ lifecycle_hooks' = [lifecycle_hooks EXCEPT ![st] = Append(@, kind)]
    /\ changes' = <<>>
    /\ UNCHANGED <<agent_states, agent_protocols, protocol_callbacks,
                   dependency_graph, persisted, store, last_event>>
    /\ UNCHANGED nonLifecycleVars

\* The stores (cache, database) stop or start answering.
StoreChanges(st) ==
    /\ store # st
    /\ store' = st
    /\ changes' = <<>>
    /\ UNCHANGED <<agent_states, agent_protocols, protocol_callbacks,
                   dependency_graph, lifecycle_hooks, persisted, last_event>>
    /\ UNCHANGED nonLifecycleVars

NextLifecycle ==
    \/ \E a \in LcAgents : CreateAgent(a)
    \/ \E a \in Subjects, new \in LifecycleStates : TransitionState(a, new)
    \/ \E a \in LcAgents : StartAgent(a)
    \/ \E a \in Subjects : PauseAgent(a)
    \/ \E a \in Subjects : ResumeAgent(a)
    \/ \E a \in Subjects : SuspendAgent(a)
    \/ \E a \in LcAgents, force \in BOOLEAN : TerminateAgent(a, force)
    \/ \E a \in Subjects : RecoverAgent(a)
    \/ \E st \in HookStates, kind \in HookKinds : RegisterLifecycleHook(st, kind)
    \/ \E st \in StoreStates : StoreChanges(st)

\* The manager with the operations that lead to a recovery, on every agent:
\* an agent is created (a2 fails to initialize while a1 is not ready),
\* started, suspended and recovered.
NextRecovery ==
    \/ \E a \in LcAgents : CreateAgent(a)
    \/ \E a \in LcAgents : StartAgent(a)
    \/ \E a \in LcAgents : SuspendAgent(a)
    \/ \E a \in LcAgents : RecoverAgent(a)
    \/ \E st \in StoreStates : StoreChanges(st)

(***************************************************************************)
(* StatePersistence.create_checkpoint (lifecycle.py:303-318)               *)
(***************************************************************************)
\* checkpoint_data given to create_checkpoint
CheckpointData == {"x", "y"}

InitCheckpoints ==
    /\ checkpoints = [a \in LcAgents |-> <<>>]
    /\ saved_checkpoints = [a \in LcAgents |-> <<>>]
    /\ checkpoint_log = [a \in LcAgents |-> <<>>]
    /\ cached = [a \in LcAgents |-> FALSE]
    /\ restored = [a \in LcAgents |-> ""]

\* (mutant) the slice keeps the first entries: checkpoints[:10]
keep_checkpoints_first(list) ==
    IF Len(list) > CheckpointLimit THEN SubSeq(list, 1, CheckpointLimit) ELSE list

\* `if len(checkpoints) > 10: checkpoints = checkpoints[-10:]`
keep_checkpoints(list) ==
    IF Len(list) > CheckpointLimit
    THEN SubSeq(list, Len(list) - CheckpointLimit + 1, Len(list))
    ELSE list

\* create_checkpoint: the checkpoint is appended, the list cut to its last
\* entries and the state saved; a save that raises leaves the list as cut.
\* seq stands for the timestamp: it orders the checkpoints of an agent.
CreateCheckpoint(a, data) ==
    /\ Len(checkpoint_log[a]) < MaxCheckpoints
    /\ LET checkpoint == [seq |-> Len(checkpoint_log[a]) + 1, data |-> data]
           kept == keep_checkpoints(Append(checkpoints[a], checkpoint))
       IN  /\ checkpoints' = [checkpoints EXCEPT ![a] = kept]
           /\ checkpoint_log' = [checkpoint_log EXCEPT ![a] = Append(@, checkpoint)]
           /\ saved_checkpoints' = IF store = "down" THEN saved_checkpoints
                                   ELSE [saved_checkpoints EXCEPT ![a] = kept]
           /\ cached' = IF store = "down" THEN cached
                         ELSE [cached EXCEPT ![a] = TRUE]
    /\ UNCHANGED restored
    /\ UNCHANGED nonCheckpointVars

NextCheckpoints ==
    \/ \E a \in LcAgents, data \in CheckpointData : CreateCheckpoint(a, data)
    \/ \E st \in StoreStates : StoreChanges(st)

\* The checkpoints of the AgentState load_state returns: the cache entry is
\* the to_dict() of the state saved, checkpoints included; the row of table
\* agent_states, read when the cache has no entry, has no column for them, so
\* the state built from it has the default, an empty list (the row exists
\* once the state was saved, so the checkpoint file is not reached).
load_checkpoints(a) ==
    IF store = "down" THEN <<>>
    ELSE IF cached[a] THEN saved_checkpoints[a]
    ELSE <<>>

\* restore_checkpoint(agent_id, -1): the data of the last checkpoint of the
\* loaded state, None without a state or without checkpoints.
restore_checkpoint(a) ==
    LET list == load_checkpoints(a)
    IN  IF list = <<>> THEN "none" ELSE list[Len(list)].data

RestoreCheckpoint(a) ==
    /\ restored' = [restored EXCEPT ![a] = restore_checkpoint(a)]
    /\ UNCHANGED <<checkpoints, saved_checkpoints, checkpoint_log, cached>>
    /\ UNCHANGED nonCheckpointVars

\* The cache entry written with ttl=3600 expires.
StateEntryExpires(a) ==
    /\ cached[a]
    /\ cached' = [cached EXCEPT ![a] = FALSE]
    /\ UNCHANGED <<checkpoints, saved_checkpoints, checkpoint_log, restored>>
    /\ UNCHANGED nonCheckpointVars

\* create_checkpoint and restore_checkpoint on one agent, with the cache
\* entry expiring.
NextRestore ==
    \/ \E a \in Subjects, data \in CheckpointData : CreateCheckpoint(a, data)
    \/ \E a \in Subjects : RestoreCheckpoint(a)
    \/ \E a \in Subjects : StateEntryExpires(a)
    \/ \E st \in StoreStates : StoreChanges(st)

(***************************************************************************)
(* AgentPoolMaker: planning (agent_pool_maker.py:51-396)                   *)
(*                                                                         *)
(* An agent created from a template is named by its template: a pool holds *)
(* at most one agent of a template, so the name stands for the uuid        *)
(* create_agent gives it.                                                  *)
(***************************************************************************)
\* _initialize_templates, in the order of the dict
TemplateOrder ==
    <<"python_backend", "frontend_vue", "frontend_react", "database_engineer",
      "devops_engineer", "technical_writer", "qa_engineer">>

Templates == {TemplateOrder[i] : i \in 1..Len(TemplateOrder)}

\* the words of each template's name, lowered: `"frontend" in a.name.lower()`
\* finds a word of the name (no name holds one of the searched words inside
\* another word)
TemplateNameWords ==
    [t \in Templates |->
        CASE t = "python_backend" -> {"python", "backend", "developer"}
          [] t = "frontend_vue" -> {"vue", "frontend", "developer"}
          [] t = "frontend_react" -> {"react", "frontend", "developer"}
          [] t = "database_engineer" -> {"database", "engineer"}
          [] t = "devops_engineer" -> {"devops", "engineer"}
          [] t = "technical_writer" -> {"technical", "documentation", "writer"}
          [] t = "qa_engineer" -> {"qa", "engineer"}]

name_has(word, a) == word \in TemplateNameWords[a]

\* the TechnologyStack members a ProjectRequirements is given here
Technologies ==
    {"python_fastapi", "python_django", "nodejs_express", "vue_typescript",
     "react_typescript", "database_postgres", "database_mongodb", "docker"}

\* _initialize_technology_mapping, on the technologies above
technology_mapping ==
    [t \in Technologies \ {"nodejs_express"} |->
        CASE t \in {"python_fastapi", "python_django"} -> {"python_backend"}
          [] t = "vue_typescript" -> {"frontend_vue"}
          [] t = "react_typescript" -> {"frontend_react"}
          [] t \in {"database_postgres", "database_mongodb"} -> {"database_engineer"}
          [] t = "docker" -> {"devops_engineer"}]

\* ProjectRequirements, the fields determine_required_agents reads
Requirements ==
    [technologies : SUBSET Technologies, has_testing : BOOLEAN,
     has_deployment : BOOLEAN]

\* (mutant) "Always include documentation and QA": qa_engineer is added
\* whatever has_testing says
determine_required_agents_always_qa(r) ==
    UNION {technology_mapping[t] : t \in r.technologies \cap DOMAIN technology_mapping}
        \cup {"technical_writer", "qa_engineer"}
        \cup (IF r.has_deployment THEN {"devops_engineer"} ELSE {})

\* determine_required_agents: the set the loop and the three adds build (the
\* list returned is this set in the set's iteration order).
determine_required_agents(r) ==
    UNION {technology_mapping[t] : t \in r.technologies \cap DOMAIN technology_mapping}
        \cup {"technical_writer"}
        \cup (IF r.has_testing THEN {"qa_engineer"} ELSE {})
        \cup (IF r.has_deployment THEN {"devops_engineer"} ELSE {})

Reverse(s) == [i \in 1..Len(s) |-> s[Len(s) + 1 - i]]

\* list(required_agents): the set in one of the orders its iteration can
\* take; two are kept, the order of the templates and its reverse.
list_of(S, reversed) ==
    LET ordered == SelectSeq(TemplateOrder, LAMBDA t : t \in S)
    IN  IF reversed THEN Reverse(ordered) ELSE ordered

Members(s) == {s[i] : i \in 1..Len(s)}

\* (mutant) the writers are not left out of "all depend on technical writer"
configure_agent_dependencies_all(agents) ==
    LET all == Members(agents)
        backend_agents == {a \in all : name_has("backend", a)}
        database_agents == {a \in all : name_has("database", a)}
        writer_agents == {a \in all : name_has("writer", a)}
    IN  [a \in Templates |->
            IF a \notin all THEN {}
            ELSE (IF name_has("frontend", a) THEN backend_agents ELSE {})
                 \cup (IF name_has("backend", a) THEN database_agents ELSE {})
                 \cup writer_agents]

\* configure_agent_dependencies: the ids appended to each agent's
\* dependencies (nothing for a template the list has no agent of).
configure_agent_dependencies(agents) ==
    LET all == Members(agents)
        backend_agents == {a \in all : name_has("backend", a)}
        database_agents == {a \in all : name_has("database", a)}
        writer_agents == {a \in all : name_has("writer", a)}
    IN  [a \in Templates |->
            IF a \notin all THEN {}
            ELSE (IF name_has("frontend", a) THEN backend_agents ELSE {})
                 \cup (IF name_has("backend", a) THEN database_agents ELSE {})
                 \cup (IF a \notin writer_agents THEN writer_agents ELSE {})]

\* `if agents_of_phase: phases.append({...})`
phase_entry(number, name, members, parallel) ==
    IF members = <<>> THEN <<>>
    ELSE <<[phase |-> number, name |-> name, agents |-> members,
            parallel |-> parallel]>>

\* (mutant) the frontend phase is appended before the backend phase
create_execution_plan_frontend_first(agents) ==
    phase_entry(1, "Setup & Infrastructure",
                SelectSeq(agents, LAMBDA a : name_has("database", a)
                                              \/ name_has("devops", a)), TRUE)
    \o phase_entry(3, "Frontend Development",
                   SelectSeq(agents, LAMBDA a : name_has("frontend", a)), FALSE)
    \o phase_entry(2, "Backend Development",
                   SelectSeq(agents, LAMBDA a : name_has("backend", a)), FALSE)
    \o phase_entry(4, "Testing & Documentation",
                   SelectSeq(agents, LAMBDA a : name_has("qa", a)
                                                 \/ name_has("writer", a)), TRUE)

\* create_execution_plan: the list "phases" of the plan.
create_execution_plan(agents) ==
    phase_entry(1, "Setup & Infrastructure",
                SelectSeq(agents, LAMBDA a : name_has("database", a)
                                              \/ name_has("devops", a)), TRUE)
    \o phase_entry(2, "Backend Development",
                   SelectSeq(agents, LAMBDA a : name_has("backend", a)), FALSE)
    \o phase_entry(3, "Frontend Development",
                   SelectSeq(agents, LAMBDA a : name_has("frontend", a)), FALSE)
    \o phase_entry(4, "Testing & Documentation",
                   SelectSeq(agents, LAMBDA a : name_has("qa", a)
                                                 \/ name_has("writer", a)), TRUE)

\* no call of determine_required_agents yet
NotDetermined ==
    [called |-> FALSE,
     requirements |-> [technologies |-> {}, has_testing |-> FALSE,
                       has_deployment |-> FALSE],
     required_agents |-> {}]
NotPlanned == [agents |-> <<>>, dependencies |-> [a \in Templates |-> {}],
               phases |-> <<>>]

InitPlanning ==
    /\ determined = NotDetermined
    /\ planned = NotPlanned

\* determine_required_agents(r) is called; r is read, not written.
DetermineRequiredAgents(r) ==
    /\ r \in Requirements
    /\ determined' = [called |-> TRUE, requirements |-> r,
                      required_agents |-> determine_required_agents(r)]
    /\ UNCHANGED planned
    /\ UNCHANGED nonPlanVars

\* Agents are created from the templates S (create_agent), their
\* dependencies configured and the plan made, as create_agent_pool does with
\* the templates it determined.
PlanAgents(S, reversed) ==
    /\ S \subseteq Templates
    /\ LET agents == list_of(S, reversed)
       IN  planned' = [agents |-> agents,
                       dependencies |-> configure_agent_dependencies(agents),
                       phases |-> create_execution_plan(agents)]
    /\ UNCHANGED determined
    /\ UNCHANGED nonPlanVars

NextRequirements == \E r \in Requirements : DetermineRequiredAgents(r)

NextPlanner == \E S \in SUBSET Templates, reversed \in BOOLEAN : PlanAgents(S, reversed)

(***************************************************************************)
(* Dynamic pools: AgentManager.create_dynamic_pool, execute_dynamic_pool   *)
(* (manager.py:522-627) and AgentPoolMaker.instantiate_agents,             *)
(* execute_pool (agent_pool_maker.py:485-691)                              *)
(***************************************************************************)
\* the fields analyze_requirements reads in the JSON the LLM answers with;
\* parsed is FALSE when _extract_json or a field access raises
LlmData ==
    [frontend_tech : {"vue", "react", "none"},
     backend_tech : {"python_fastapi", "nodejs_express", "none"},
     database : {"postgres", "mongodb", "none"},
     has_deployment : BOOLEAN, parsed : BOOLEAN]

\* analyze_requirements: has_testing keeps its default, True.
analyze_requirements(data) ==
    IF ~data.parsed
    THEN [technologies |-> {"python_fastapi", "vue_typescript"},
          has_testing |-> TRUE, has_deployment |-> FALSE]
    ELSE [technologies |->
              (CASE data.frontend_tech = "vue" -> {"vue_typescript"}
                 [] data.frontend_tech = "react" -> {"react_typescript"}
                 [] OTHER -> {})
              \cup (IF data.backend_tech = "none" THEN {} ELSE {data.backend_tech})
              \cup (CASE data.database = "postgres" -> {"database_postgres"}
                      [] data.database = "mongodb" -> {"database_mongodb"}
                      [] OTHER -> {})
              \cup (IF data.has_deployment THEN {"docker"} ELSE {}),
          has_testing |-> TRUE, has_deployment |-> data.has_deployment]

\* instantiate_agents: the specifications the factory makes an agent of; one
\* it raises for is logged and passed over.
instantiate_agents(specs, failing) == Members(specs) \ failing

\* what the factory raises for: at most MaxFailing of the specifications
FailingSets(specs) == {F \in SUBSET Members(specs) : Cardinality(F) <= MaxFailing}

IdleRun ==
    [pc |-> "idle", phase_index |-> 0, continue_on_failure |-> FALSE,
     position |-> 0, pending |-> {}, executing |-> {}, ran |-> {},
     agent_results |-> [a \in Templates |-> "none"],
     variables |-> [a \in Templates |-> "none"]]

NoResults ==
    [phases |-> <<>>, overall_success |-> TRUE, completed_agents |-> <<>>,
     failed_agents |-> <<>>]

InitPool ==
    /\ created_agents = <<>>
    /\ dependencies = [a \in Templates |-> {}]
    /\ execution_plan = <<>>
    /\ active_agents = {}
    /\ manager_agents = {}
    /\ pool_status = "none"
    /\ pool_run = IdleRun
    /\ results = NoResults

\* create_agent for each template, configure_agent_dependencies,
\* create_execution_plan and instantiate_agents.
build_pool(agents, failing) ==
    /\ created_agents' = agents
    /\ dependencies' = configure_agent_dependencies(agents)
    /\ execution_plan' = create_execution_plan(agents)
    /\ active_agents' = instantiate_agents(agents, failing)
    /\ pool_status' = "created"
    /\ UNCHANGED <<pool_run, results>>

\* create_dynamic_pool: create_agent_pool on the LLM's answer, the agents
\* instantiated and registered with the manager, the pool stored as created.
CreateDynamicPool ==
    /\ pool_status = "none"
    /\ \E data \in LlmData, reversed \in BOOLEAN :
          LET agents == list_of(determine_required_agents(
                                    analyze_requirements(data)), reversed)
          IN  \E failing \in FailingSets(agents) :
                 /\ build_pool(agents, failing)
                 /\ manager_agents' = instantiate_agents(agents, failing)
    /\ UNCHANGED nonPoolVars

\* The pool maker used without the manager: agents created from the
\* templates S, configured, planned and instantiated.
AssemblePool ==
    /\ pool_status = "none"
    /\ \E S \in SUBSET Templates, reversed \in BOOLEAN :
          LET agents == list_of(S, reversed)
          IN  \E failing \in FailingSets(agents) : build_pool(agents, failing)
    /\ UNCHANGED manager_agents
    /\ UNCHANGED nonPoolVars

CurrentPhase == execution_plan[pool_run.phase_index]

\* execute_dynamic_pool up to execute_pool's loop; the plan may carry
\* continue_on_failure.
ExecutePoolStarts(continue) ==
    /\ pool_status = "created"
    /\ pool_status' = "executing"
    /\ pool_run' = [IdleRun EXCEPT !.pc = "next_phase", !.phase_index = 1,
                                   !.continue_on_failure = continue]
    /\ results' = NoResults
    /\ UNCHANGED <<created_agents, dependencies, execution_plan, active_agents,
                   manager_agents>>
    /\ UNCHANGED nonPoolVars

\* The loop takes the next phase: _execute_parallel makes a task for every
\* agent of the phase found in active_agents, _execute_sequential starts at
\* the first agent.
PhaseStarts ==
    /\ pool_run.pc = "next_phase"
    /\ pool_run.phase_index <= Len(execution_plan)
    /\ pool_run' = [pool_run EXCEPT
                       !.pc = "in_phase",
                       !.position = 1,
                       !.pending = IF CurrentPhase.parallel
                                   THEN Members(CurrentPhase.agents) \cap active_agents
                                   ELSE {},
                       !.ran = {},
                       !.agent_results = [a \in Templates |-> "none"]]
    /\ UNCHANGED <<created_agents, dependencies, execution_plan, active_agents,
                   manager_agents, pool_status, results>>
    /\ UNCHANGED nonPoolVars

\* what an agent's execute can end with: a successful result with an output
\* ("ok"), a successful result without one ("empty"), a failed result or an
\* exception ("failed")
AgentOutcomes == {"ok", "empty", "failed"}

\* _execute_sequential, after a result: `if result.success and result.output`
\* the output goes into context.variables under "<agent_id>_output".  The
\* output of an agent is named by the agent.
pass_output_always(variables, a, outcome) == [variables EXCEPT ![a] = a]

pass_output(variables, a, outcome) ==
    IF outcome = "ok" THEN [variables EXCEPT ![a] = a] ELSE variables

\* _execute_single_agent is entered for an agent: a task of _execute_parallel
\* begins to run, or the loop of _execute_sequential, which awaits every call
\* before it goes on, is at the agent.
AgentStarts(a) ==
    /\ pool_run.pc = "in_phase"
    /\ a \notin pool_run.executing
    /\ IF CurrentPhase.parallel
       THEN a \in pool_run.pending
       ELSE /\ pool_run.position <= Len(CurrentPhase.agents)
            /\ a = CurrentPhase.agents[pool_run.position]
            /\ a \in active_agents
    /\ pool_run' = [pool_run EXCEPT !.executing = @ \cup {a}]
    /\ UNCHANGED <<created_agents, dependencies, execution_plan, active_agents,
                   manager_agents, pool_status, results>>
    /\ UNCHANGED nonPoolVars

\* _execute_single_agent ends for an agent: with a successful result, or with
\* a failed one (the agent returned it, or raised).
AgentExecutes(a, outcome) ==
    /\ pool_run.pc = "in_phase"
    /\ outcome \in AgentOutcomes
    /\ a \in pool_run.executing
    /\ IF CurrentPhase.parallel
       THEN pool_run' = [pool_run EXCEPT !.pending = @ \ {a},
                                         !.executing = @ \ {a},
                                         !.ran = @ \cup {a},
                                         !.agent_results[a] = outcome]
       ELSE pool_run' = [pool_run EXCEPT
                            !.position = @ + 1,
                            !.executing = @ \ {a},
                            !.ran = @ \cup {a},
                            !.agent_results[a] = outcome,
                            !.variables = pass_output(@, a, outcome)]
    /\ UNCHANGED <<created_agents, dependencies, execution_plan, active_agents,
                   manager_agents, pool_status, results>>
    /\ UNCHANGED nonPoolVars

\* _execute_sequential meets an id that is not in active_agents: the result
\* is a failure, "Agent not found".
AgentNotFound(a) ==
    /\ pool_run.pc = "in_phase"
    /\ ~CurrentPhase.parallel
    /\ pool_run.position <= Len(CurrentPhase.agents)
    /\ a = CurrentPhase.agents[pool_run.position]
    /\ a \notin active_agents
    /\ pool_run' = [pool_run EXCEPT !.position = @ + 1,
                                    !.agent_results[a] = "failed"]
    /\ UNCHANGED <<created_agents, dependencies, execution_plan, active_agents,
                   manager_agents, pool_status, results>>
    /\ UNCHANGED nonPoolVars

\* execute_pool processes the results of the phase, in the order of the
\* phase's agents, and stops at a failed phase unless told to continue.
PhaseEnds ==
    /\ pool_run.pc = "in_phase"
    /\ IF CurrentPhase.parallel
       THEN pool_run.pending = {}
       ELSE pool_run.position > Len(CurrentPhase.agents)
    /\ LET succeeded(a) == pool_run.agent_results[a] \in {"ok", "empty"}
           with_result == SelectSeq(CurrentPhase.agents,
                              LAMBDA a : pool_run.agent_results[a] # "none")
           completed == SelectSeq(with_result,
                              LAMBDA a : succeeded(a))
           failed == SelectSeq(with_result,
                              LAMBDA a : pool_run.agent_results[a] = "failed")
           success == failed = <<>>
           stops == ~success /\ ~pool_run.continue_on_failure
       IN  /\ results' =
                 [phases |-> Append(results.phases,
                                    [name |-> CurrentPhase.name,
                                     agents |-> with_result,
                                     success |-> success]),
                  overall_success |-> results.overall_success /\ success,
                  completed_agents |-> results.completed_agents \o completed,
                  failed_agents |-> results.failed_agents \o failed]
           /\ pool_run' = [pool_run EXCEPT
                              !.pc = IF stops THEN "done" ELSE "next_phase",
                              !.phase_index = IF stops THEN @ ELSE @ + 1]
           /\ pool_status' = IF stops THEN "failed" ELSE pool_status
    /\ UNCHANGED <<created_agents, dependencies, execution_plan, active_agents,
                   manager_agents>>
    /\ UNCHANGED nonPoolVars

\* The loop has no phase left: execute_pool returns and the pool is marked
\* completed or failed.
ExecutePoolReturns ==
    /\ pool_run.pc = "next_phase"
    /\ pool_run.phase_index > Len(execution_plan)
    /\ pool_run' = [pool_run EXCEPT !.pc = "done"]
    /\ pool_status' = IF results.overall_success THEN "completed" ELSE "failed"
    /\ UNCHANGED <<created_agents, dependencies, execution_plan, active_agents,
                   manager_agents, results>>
    /\ UNCHANGED nonPoolVars

NextPool ==
    \/ CreateDynamicPool
    \/ AssemblePool
    \/ \E continue \in BOOLEAN : ExecutePoolStarts(continue)
    \/ PhaseStarts
    \/ \E a \in Templates : AgentStarts(a)
    \/ \E a \in Templates, outcome \in AgentOutcomes : AgentExecutes(a, outcome)
    \/ \E a \in Templates : AgentNotFound(a)
    \/ PhaseEnds
    \/ ExecutePoolReturns

(***************************************************************************)
(* WorkflowOrchestrator (orchestrator.py:106-555), driving the             *)
(* LifecycleManager above                                                  *)
(***************************************************************************)
Workflows == {"w1", "w2"}

\* workflow_agents.get(w, []) of a workflow that has no entry
NoAgents == {}

NoCall == [op |-> "none", workflow |-> "", raised |-> FALSE, repeated |-> FALSE]

InitOrchestrator ==
    /\ active_workflows = {}
    /\ workflow_agents = [w \in Workflows |-> NoAgents]
    /\ workflow_contexts = {}
    /\ last_call = NoCall

\* the call made now, after the one recorded in last_call
ThisCall(op, w, raised) ==
    [op |-> op, workflow |-> w, raised |-> raised,
     repeated |-> last_call.op = op /\ last_call.workflow = w]

\* the orders in which `for agent_id in <set>` can take the agents
Orderings(S) ==
    {s \in [1..Cardinality(S) -> S] : \A i, j \in DOMAIN s : s[i] = s[j] => i = j}

\* what pause_workflow, resume_workflow and cancel_workflow call for an agent
agent_call(m, a, op) ==
    CASE op = "pause_workflow" ->
           with_status(transition_state(m, a, "paused"), a, "idle")
      [] op = "resume_workflow" ->
           IF m.agent_states[a].lifecycle_state = "paused"
           THEN with_status(transition_state(m, a, "running"), a, "running")
           ELSE Returned(m)
      [] op = "cancel_workflow" -> terminate_agent(m, a, TRUE)

\* `for agent_id in self.workflow_agents.get(w, []): if agent_id in
\* agent_states: await lifecycle_manager.<call>(agent_id)`; an exception of
\* the call ends the loop and the handler.
RECURSIVE for_each_agent(_, _, _)
for_each_agent(m, agents, op) ==
    IF agents = <<>> THEN Returned(m)
    ELSE IF m.agent_states[Head(agents)].lifecycle_state = "absent"
         THEN for_each_agent(m, Tail(agents), op)
         ELSE LET r == agent_call(m, Head(agents), op)
              IN  IF r.raised THEN r
                  ELSE for_each_agent(r.m, Tail(agents), op)

\* the lifecycle manager's fields the orchestrator's call leaves behind
OrchestratorApply(m) ==
    /\ agent_states' = m.agent_states
    /\ agent_protocols' = m.agent_protocols
    /\ protocol_callbacks' = m.protocol_callbacks
    /\ dependency_graph' = m.dependency_graph
    /\ persisted' = m.persisted
    /\ last_event' = m.last_event
    /\ changes' = m.changes
    /\ UNCHANGED <<lifecycle_hooks, store>>
    /\ UNCHANGED nonOrchestratorVars

\* create_workflow: a workflow with a fresh id is stored with its context
\* (_save_workflow logs what the database raises).
CreateWorkflow(w) ==
    /\ w \notin active_workflows
    /\ w \notin workflow_contexts
    /\ workflow_agents[w] = NoAgents
    /\ active_workflows' = active_workflows \cup {w}
    /\ workflow_contexts' = workflow_contexts \cup {w}
    /\ last_call' = ThisCall("create_workflow", w, FALSE)
    /\ UNCHANGED workflow_agents
    /\ OrchestratorApply(LcFields)

\* execute_workflow: the agents of the pool (fresh ids) are put into
\* lifecycle_manager.agent_states as READY, without a protocol and without
\* being saved, and become the workflow's agents; the steps that follow
\* leave the lifecycle manager alone.
ExecuteWorkflow(w, S) ==
    /\ w \in active_workflows
    /\ S # {}
    /\ \A a \in S : /\ agent_states[a] = AbsentState
                    /\ \A v \in Workflows : a \notin workflow_agents[v]
    /\ workflow_agents' = [workflow_agents EXCEPT ![w] = S]
    /\ last_call' = ThisCall("execute_workflow", w, FALSE)
    /\ UNCHANGED <<active_workflows, workflow_contexts>>
    /\ OrchestratorApply(
          [LcFields EXCEPT !.agent_states =
              [a \in LcAgents |->
                  IF a \in S THEN [lifecycle_state |-> "ready", status |-> "idle"]
                  ELSE @[a]]])

\* pause_workflow and resume_workflow.
PauseOrResumeWorkflow(w, op) ==
    /\ op \in {"pause_workflow", "resume_workflow"}
    /\ w \in active_workflows
    /\ \E agents \in Orderings(workflow_agents[w]) :
          LET r == for_each_agent(LcFields, agents, op)
          IN  /\ last_call' = ThisCall(op, w, r.raised)
              /\ OrchestratorApply(r.m)
    /\ UNCHANGED <<active_workflows, workflow_agents, workflow_contexts>>

\* cancel_workflow: nothing for a workflow that is not active; otherwise the
\* workflow's agents are terminated with force and, when no termination
\* raised, the workflow is deleted from the three dicts.
CancelWorkflow(w) ==
    /\ w \in Workflows
    /\ IF w \notin active_workflows
       THEN /\ last_call' = ThisCall("cancel_workflow", w, FALSE)
            /\ UNCHANGED <<active_workflows, workflow_agents, workflow_contexts>>
            /\ OrchestratorApply(LcFields)
       ELSE \E agents \in Orderings(workflow_agents[w]) :
               LET r == for_each_agent(LcFields, agents, "cancel_workflow")
               IN  /\ last_call' = ThisCall("cancel_workflow", w, r.raised)
                   /\ OrchestratorApply(r.m)
                   /\ IF r.raised
                      THEN UNCHANGED <<active_workflows, workflow_agents,
                                       workflow_contexts>>
                      ELSE /\ active_workflows' = active_workflows \ {w}
                           /\ workflow_agents' =
                                 [workflow_agents EXCEPT ![w] = NoAgents]
                           /\ workflow_contexts' = workflow_contexts \ {w}

NextOrchestrator ==
    \/ \E w \in Workflows : CreateWorkflow(w)
    \/ \E w \in Workflows, S \in SUBSET LcAgents : ExecuteWorkflow(w, S)
    \/ \E w \in Workflows, op \in {"pause_workflow", "resume_workflow"} :
          PauseOrResumeWorkflow(w, op)
    \/ \E w \in Workflows : CancelWorkflow(w)

(***************************************************************************)
(* AgentDarwin (agent_darwin.py:58-339).  Rates and scores of the metrics  *)
(* are kept in tenths, the response time in units of 6 seconds, the        *)
(* overall score in thousandths.                                           *)
(***************************************************************************)
DarwinAgents == {"d1"}

\* The metrics monitor_agent_performance can leave for an agent: the
\* completion rate is the mean of the samples, quality_score is at least 0.5,
\* user_satisfaction and resource_usage keep their default 0.0, and
\* error_rate and average_response_time are running averages.
MetricsInputs ==
    [task_completion_rate : {0, 5, 8, 10},
     quality_score : {5, 7, 9},
     average_response_time : {0, 5, 10},
     error_rate : {0, 2, 3},
     user_satisfaction : {0},
     resource_usage : {0}]

NoCandidate == [agent_id |-> "none", strategy |-> "none", risk_level |-> "none"]

InitDarwin ==
    /\ performance_history = [a \in {} |-> 0]
    /\ evolution_candidates = <<>>
    /\ evolved = [a \in DarwinAgents |-> NoCandidate]

Max(x, y) == IF x >= y THEN x ELSE y
Min(x, y) == IF x <= y THEN x ELSE y

\* PerformanceMetrics.calculate_overall_score, in thousandths.
calculate_overall_score(m) ==
    LET speed_score == Max(0, 10 - m.average_response_time)
        score == 30 * m.task_completion_rate + 25 * m.quality_score
                 + 15 * speed_score + 20 * m.user_satisfaction
                 + 10 * (10 - m.resource_usage)
    IN  Min(1000, Max(0, score))

\* self.evolution_threshold = 0.7
evolution_threshold == 700

select_evolution_strategy(m) ==
    LET score == calculate_overall_score(m) IN
    CASE score < 300 -> "expansion"
      [] score >= 300 /\ score < 500 -> "mutation"
      [] score >= 500 /\ score < 700 -> "pruning"
      [] score >= 700 /\ m.error_rate > 2 -> "reinforcement"
      [] OTHER -> "mutation"

risk_level_of(strategy) ==
    CASE strategy \in {"expansion", "crossover"} -> "high"
      [] strategy = "mutation" -> "medium"
      [] OTHER -> "low"

\* evolve_agent: None without metrics and for a score above the threshold,
\* else the candidate it appends to evolution_candidates.
evolve_agent(a) ==
    IF a \notin DOMAIN performance_history
    THEN NoCandidate
    ELSE LET m == performance_history[a] IN
         IF calculate_overall_score(m) > evolution_threshold
         THEN NoCandidate
         ELSE [agent_id |-> a,
               strategy |-> select_evolution_strategy(m),
               risk_level |-> risk_level_of(select_evolution_strategy(m))]

\* monitor_agent_performance has updated the metrics of a.
MonitorAgentPerformance(a, m) ==
    /\ performance_history' =
          [b \in DOMAIN performance_history \cup {a} |->
              IF b = a THEN m ELSE performance_history[b]]
    /\ UNCHANGED <<evolution_candidates, evolved>>
    /\ UNCHANGED nonDarwinVars

EvolveAgent(a) ==
    /\ Len(evolution_candidates) < MaxCandidates
    /\ evolved' = [evolved EXCEPT ![a] = evolve_agent(a)]
    /\ evolution_candidates' = IF evolve_agent(a) = NoCandidate
                               THEN evolution_candidates
                               ELSE Append(evolution_candidates, evolve_agent(a))
    /\ UNCHANGED performance_history
    /\ UNCHANGED nonDarwinVars

NextDarwin ==
    \/ \E a \in DarwinAgents, m \in MetricsInputs : MonitorAgentPerformance(a, m)
    \/ \E a \in DarwinAgents : EvolveAgent(a)

(***************************************************************************)
(* AgentManager.register_agent and create_conversation_agent               *)
(* (manager.py:213-232, 359-388)                                           *)
(***************************************************************************)
Sessions == {"s1", "s2", "s3"}

\* f"session_{session_id}"
session_name(s) == CASE s = "s1" -> "session_s1"
                     [] s = "s2" -> "session_s2"
                     [] OTHER -> "session_s3"

\* agents registered under their own names (loaded from the database or made
\* for a pool), next to the conversation agents of the sessions
LoadedAgents == {"architect"}

InitRegistry ==
    /\ agent_keys = <<>>
    /\ breaker_keys = {}
    /\ session_agent_cache = {}
    /\ registration_order = <<>>

\* `self.agents[name] = agent` on an OrderedDict: a new key goes to the end,
\* a key that is there keeps its place.
dict_set(keys, name) ==
    IF \E i \in 1..Len(keys) : keys[i] = name THEN keys ELSE Append(keys, name)

Without(keys, name) == SelectSeq(keys, LAMBDA k : k # name)

\* AgentManager.register_agent on the key lists of agents and
\* circuit_breakers.
register_agent(reg, name) ==
    LET full == Len(reg.agents) >= MaxAgents
        oldest_agent == Head(reg.agents)
        kept == IF full THEN Tail(reg.agents) ELSE reg.agents
        breakers == IF full THEN reg.circuit_breakers \ {oldest_agent}
                    ELSE reg.circuit_breakers
    IN  [agents |-> dict_set(kept, name),
         circuit_breakers |-> breakers \cup {name}]

\* a register_agent call with its effect on the manager and on the history
registers(name) ==
    LET r == register_agent([agents |-> agent_keys,
                             circuit_breakers |-> breaker_keys], name)
    IN  /\ agent_keys' = r.agents
        /\ breaker_keys' = r.circuit_breakers
        /\ registration_order' =
              Append(SelectSeq(registration_order,
                               LAMBDA k : k # name /\ k \in Members(r.agents)),
                     name)

\* register_agent for an agent loaded from the database or made for a pool.
ManagerRegisterAgent(name) ==
    /\ registers(name)
    /\ UNCHANGED session_agent_cache
    /\ UNCHANGED nonRegistryVars

\* create_conversation_agent: the agent of the session is returned when the
\* cache names it and it is registered; else a new one is made and
\* registered, and its name cached (the cache may fail to answer or store).
CreateConversationAgent(s, answers) ==
    /\ answers \in BOOLEAN
    /\ IF /\ answers /\ s \in session_agent_cache
          /\ session_name(s) \in Members(agent_keys)
       THEN UNCHANGED registryVars
       ELSE /\ registers(session_name(s))
            /\ session_agent_cache' = IF answers THEN session_agent_cache \cup {s}
                                      ELSE session_agent_cache
    /\ UNCHANGED nonRegistryVars

\* The cache entry of a session expires (ttl 3600 s).
SessionEntryExpires(s) ==
    /\ s \in session_agent_cache
    /\ session_agent_cache' = session_agent_cache \ {s}
    /\ UNCHANGED <<agent_keys, breaker_keys, registration_order>>
    /\ UNCHANGED nonRegistryVars

NextRegistry ==
    \/ \E name \in LoadedAgents : ManagerRegisterAgent(name)
    \/ \E s \in Sessions, answers \in BOOLEAN : CreateConversationAgent(s, answers)
    \/ \E s \in Sessions : SessionEntryExpires(s)

(***************************************************************************)
(* Specifications                                                          *)
(***************************************************************************)
Init ==
    /\ InitBreaker /\ InitLimiter /\ InitManager /\ InitBus /\ InitLifecycle
    /\ InitCheckpoints /\ InitPlanning /\ InitPool /\ InitOrchestrator
    /\ InitDarwin /\ InitRegistry

SpecBreaker == Init /\ [][NextBreaker]_vars

SpecLimiter == Init /\ [][NextLimiter]_vars

\* Every started function ends (asyncio.wait_for cuts it off at
\* max_execution_time) and the event loop runs every woken task.
FairLimiter ==
    \A e \in ExecIds :
        /\ WF_vars(ExecResumes(e))
        /\ WF_vars(\E o \in ExecOutcomes : ExecFinishes(e, o))

FairSpecLimiter == SpecLimiter /\ FairLimiter

SpecManager == Init /\ [][NextManager]_vars

SpecBus == Init /\ [][NextBus]_vars
SpecBroadcast == Init /\ [][NextBroadcast]_vars
SpecResponses == Init /\ [][NextResponses]_vars
\* asyncio.wait_for(future, timeout=30.0) ends the wait of a send_message
\* whose future is still pending
FairWaiters == \A id \in MsgIds : WF_vars(ResponseTimeout(id))
FairSpecWaiters == Init /\ [][NextWaiters]_vars /\ FairWaiters

SpecLifecycle == Init /\ [][NextLifecycle]_vars
SpecRecovery == Init /\ [][NextRecovery]_vars

SpecCheckpoints == Init /\ [][NextCheckpoints]_vars
SpecRestore == Init /\ [][NextRestore]_vars

SpecRequirements == Init /\ [][NextRequirements]_vars

SpecPlanner == Init /\ [][NextPlanner]_vars

SpecPool == Init /\ [][NextPool]_vars

SpecOrchestrator == Init /\ [][NextOrchestrator]_vars

SpecDarwin == Init /\ [][NextDarwin]_vars

SpecRegistry == Init /\ [][NextRegistry]_vars

(***************************************************************************)
(* Claims about the CircuitBreaker                                         *)
(***************************************************************************)
\* A call takes a step on the breaker: c enters call() in this step.
Enters(c) == calls[c].pc = "idle" /\ last' # last /\ last'.call = c
                /\ last'.kind \in {"admit", "reject"}
\* c's wrapped function is invoked in this step.
Invoked(c) == calls[c].pc = "idle" /\ calls'[c].pc = "running"
\* c's wrapped function finishes in this step.
Finishes(c) == calls[c].pc = "running" /\ calls'[c].pc = "idle"

\* C4: started Closed with failure_count 0, the breaker is Open after, and not
\* before, failure_threshold expected failures that no success separates:
\* failure_count is the number of expected failures since the last success (a
\* success resets it to 0), and the breaker is Closed exactly while that number
\* is below failure_threshold.
C4_OpensAtThreshold ==
    /\ breaker.failure_count = streak
    /\ (breaker.state = "closed") <=> (streak < FailureThreshold)

\* C4 witness: the circuit has just been opened by the failure that reached
\* the threshold, after an earlier call had succeeded.
C4_Witness ==
    /\ breaker.state = "open"
    /\ streak = FailureThreshold
    /\ last.kind = "return" /\ last.outcome = "expected" /\ last.pre = "closed"
    /\ \E c \in CallIds : calls[c].result = "ok"

\* C5: while the breaker is Open and recovery_timeout has not elapsed since the
\* last counted failure, a call is rejected without invoking the wrapped
\* function and failure_count, last_failure_time and state stay as they were.
C5_OpenRejects ==
    [][\A c \in CallIds :
         (/\ breaker.state = "open"
          /\ now - breaker.last_failure_time < RecoveryTimeout
          /\ Enters(c))
         => (/\ ~Invoked(c)
             /\ calls'[c].result = "rejected"
             /\ breaker' = breaker)]_vars

\* C5 witness: a call has been rejected by the open circuit.
C5_Witness ==
    /\ last.kind = "reject"
    /\ breaker.state = "open"
    /\ now - breaker.last_failure_time < RecoveryTimeout

\* C6 (as claimed): while the breaker is HalfOpen (its probe in flight or
\* unresolved) every other call is rejected without invoking the wrapped
\* function.
C6_SingleProbe ==
    [][\A c \in CallIds :
         (breaker.state = "half-open" /\ Enters(c))
         => (~Invoked(c) /\ calls'[c].result = "rejected")]_vars

\* C7: in HalfOpen, a call that succeeds closes the breaker with failure_count
\* 0; a call that raises the expected exception opens it again with
\* failure_count incremented and last_failure_time refreshed; and an Open
\* breaker lets a call through only once a full recovery_timeout has passed
\* since last_failure_time.
C7_HalfOpenOutcome ==
    [][\A c \in CallIds :
         /\ (breaker.state = "half-open" /\ Finishes(c) /\ calls[c].outcome = "ok")
            => (breaker'.state = "closed" /\ breaker'.failure_count = 0)
         /\ (breaker.state = "half-open" /\ Finishes(c)
                /\ calls[c].outcome = "expected")
            => (/\ breaker'.state = "open"
                /\ breaker'.failure_count = breaker.failure_count + 1
                /\ breaker'.last_failure_time = now)
         /\ (breaker.state = "open" /\ Invoked(c))
            => now - breaker.last_failure_time >= RecoveryTimeout]_vars

\* C7 witness: a probe failed in HalfOpen and the breaker is Open again, the
\* timeout running anew from the failure.
C7_Witness ==
    /\ last.kind = "return" /\ last.outcome = "expected" /\ last.pre = "half-open"
    /\ breaker.state = "open"
    /\ breaker.failure_count > FailureThreshold
    /\ breaker.last_failure_time = now

\* C8 (as claimed): a call whose wrapped function raises an exception that is
\* not of the expected class leaves failure_count, last_failure_time and state
\* unchanged, from its entry to its raise.
C8_UnexpectedLeavesAll ==
    [][\A c \in CallIds :
         /\ (Invoked(c) /\ calls'[c].outcome = "unexpected") => breaker' = breaker
         /\ (Finishes(c) /\ calls[c].outcome = "unexpected") => breaker' = breaker]_vars

\* C8 (amended): such a call leaves failure_count and last_failure_time
\* unchanged, and changes state only at its entry, from Open to HalfOpen, when
\* it is the call let through after recovery_timeout; the raise itself changes
\* nothing.
C8_UnexpectedNotCounted ==
    [][\A c \in CallIds :
         /\ (Invoked(c) /\ calls'[c].outcome = "unexpected")
            => (/\ breaker'.failure_count = breaker.failure_count
                /\ breaker'.last_failure_time = breaker.last_failure_time
                /\ \/ breaker'.state = breaker.state
                   \/ /\ breaker.state = "open"
                      /\ now - breaker.last_failure_time >= RecoveryTimeout
                      /\ breaker'.state = "half-open")
         /\ (Finishes(c) /\ calls[c].outcome = "unexpected") => breaker' = breaker]_vars

\* C8 witness: an unexpected exception has propagated out of a call made with
\* failures already counted.
C8_Witness ==
    /\ last.kind = "return" /\ last.outcome = "unexpected"
    /\ breaker.failure_count > 0

(***************************************************************************)
(* Claims about the ExecutionLimiter                                       *)
(***************************************************************************)
\* The executions whose wrapped function is running.
Running == {e \in ExecIds : execs[e] = "running"}

\* C9: never more than max_concurrent_executions wrapped functions run inside
\* execute_with_limits; a call beyond the limit waits, and every waiting call
\* eventually runs and completes (the permit is released on a return, a raise
\* and a timeout alike).
C9_ConcurrencyLimit ==
    /\ [](Cardinality(Running) <= MaxConcurrent)
    /\ \A e \in ExecIds : (execs[e] = "waiting") ~> (execs[e] = "running")
    /\ \A e \in ExecIds : (execs[e] = "running") ~> (execs[e] = "idle")

\* C9 witness: the limit is reached and a further call waits for a permit.
C9_Witness ==
    /\ Cardinality(Running) = MaxConcurrent
    /\ sem_value = 0
    /\ \E e \in ExecIds : execs[e] = "waiting"

\* The last HistorySize entries of a sequence, in order.
NewestOf(h) ==
    IF Len(h) > HistorySize
    THEN SubSeq(h, Len(h) - HistorySize + 1, Len(h))
    ELSE h

\* A call leaves execute_with_limits in this step.
Completes(e) == execs[e] = "running" /\ execs'[e] # "running"

\* C11: execution_history never holds more than history_size entries; every
\* call that returns, raises or times out adds exactly one entry at the newest
\* end (success only for a normal return), pushing out nothing but the oldest
\* entries; and no other step touches the history.
C11_HistoryIsNewestCompletions ==
    /\ [](Len(execution_history) <= HistorySize)
    /\ [][IF \E e \in ExecIds : Completes(e)
          THEN \E e \in ExecIds :
                 /\ Completes(e)
                 /\ finished'.execution_id = e
                 /\ execution_history' =
                       NewestOf(Append(execution_history,
                                       [execution_id |-> e,
                                        success |-> finished'.outcome = "ok"]))
          ELSE execution_history' = execution_history]_vars

\* C11 witness: the history is full, its older entry is a normal return and
\* its newest entry is the call that just timed out.
C11_Witness ==
    /\ Len(execution_history) = HistorySize
    /\ execution_history[1].success
    /\ finished.outcome = "timeout"
    /\ execution_history[HistorySize] =
          [execution_id |-> finished.execution_id, success |-> FALSE]

(***************************************************************************)
(* Claims about AgentManager.execute_agent                                 *)
(***************************************************************************)
\* The requests whose agent.execute on agent a is in flight.
InFlight(a) ==
    {r \in ExecIds : requests[r].pc = "limiter" /\ requests[r].agent = a
                        /\ execs[r] = "running"}

\* C10 (as claimed): for every agent, at most one execute call of the agent is
\* in flight at any time, whatever the interleaving of execute_agent calls and
\* of dispatches by the pool maker.
C10_OneExecutePerAgent == \A a \in Agents : Cardinality(InFlight(a)) <= 1

C3_FullQueueDrops ==
    [][\A a \in BusAgents :
          ( /\ running
            /\ dispatcher.pc = "idle"
            /\ message_queue # <<>>
            /\ ~is_broadcast(Head(message_queue))
            /\ Head(message_queue).recipient = a
            /\ a \in Registered
            /\ Len(agent_channels[a]) >= ChannelCapacity
            /\ message_queue' = Tail(message_queue) )
          => ( /\ dispatcher'.pc = "idle"
               /\ agent_channels'[a] = agent_channels[a] )]_vars

(***************************************************************************)
(* Claims about the LifecycleManager                                       *)
(***************************************************************************)
\* C1: every change of an agent's in-memory lifecycle_state made by an
\* operation of the LifecycleManager (recover_agent included) goes from a
\* state to one of the states the transition matrix allows for it.
C1_TransitionsInMatrix ==
    \A i \in 1..Len(changes) : changes[i][3] \in valid_transitions(changes[i][2])

\* The agents other than a that list a as a REQUIRES dependency and are
\* neither Terminated nor gone.
LiveDependents(a) ==
    {d \in LcAgents \ {a} :
        /\ a \in dependency_graph[d]
        /\ agent_states[d].lifecycle_state \notin {"absent", "terminated"}}

\* C12: terminate_agent(a, force=False) leaves a's lifecycle state as it was
\* whenever an agent that is not Terminated requires a, whatever the state of
\* that dependent.
C12_LiveDependentBlocks ==
    [][\A a \in LcAgents :
          (LiveDependents(a) # {} /\ TerminateAgent(a, FALSE))
          => agent_states'[a].lifecycle_state = agent_states[a].lifecycle_state]_vars

(***************************************************************************)
(* Claims about StatePersistence.create_checkpoint                         *)
(***************************************************************************)
\* The last n entries of a sequence, all of it when it is shorter.
LastOf(h, n) == IF Len(h) > n THEN SubSeq(h, Len(h) - n + 1, Len(h)) ELSE h

\* C13: for every agent the checkpoint list holds at most the limit of
\* entries, and they are the checkpoints created last, in creation order.
C13_CheckpointsAreNewest ==
    \A a \in LcAgents :
        /\ Len(checkpoints[a]) <= CheckpointLimit
        /\ checkpoints[a] = LastOf(checkpoint_log[a], CheckpointLimit)

\* C13 witness: more checkpoints were created for an agent than are kept.
C13_Witness ==
    \E a \in LcAgents :
        /\ Len(checkpoint_log[a]) > CheckpointLimit + 1
        /\ Len(checkpoints[a]) = CheckpointLimit
        /\ checkpoints[a][1].seq = Len(checkpoint_log[a]) - CheckpointLimit + 1

(***************************************************************************)
(* Claims about the AgentPoolMaker and the dynamic pools                   *)
(***************************************************************************)
\* C14: while a sequential phase runs without continue_on_failure, no agent
\* placed after a failed agent of the phase has been executed.
C14_SequentialStopsAtFailure ==
    ( /\ pool_run.pc = "in_phase"
      /\ ~CurrentPhase.parallel
      /\ ~pool_run.continue_on_failure )
    => \A i, j \in 1..Len(CurrentPhase.agents) :
          ( /\ i < j
            /\ pool_run.agent_results[CurrentPhase.agents[i]] = "failed" )
          => CurrentPhase.agents[j] \notin pool_run.ran

\* Everything an agent depends on, directly or through other agents.
DependsOn(graph, a) == required_from(graph, {a}, {})

\* C15: in the plan of a pool, no agent of a parallel phase depends, directly
\* or transitively, on another agent of the same phase.
C15_ParallelPhaseIndependent ==
    pool_status # "none" =>
        \A p \in 1..Len(execution_plan) :
            execution_plan[p].parallel =>
                \A a \in Members(execution_plan[p].agents) :
                    DependsOn(dependencies, a)
                        \cap (Members(execution_plan[p].agents) \ {a}) = {}

\* C16: every agent id in the plan of a stored pool has an instantiated
\* worker in active_agents.
C16_PlanAgentsInstantiated ==
    pool_status # "none" =>
        \A p \in 1..Len(execution_plan) :
            Members(execution_plan[p].agents) \subseteq active_agents

\* C17: the dependency graph configure_agent_dependencies produces for agents
\* created from the templates has no cycle and no self-dependency: no agent
\* is among the agents it depends on, directly or transitively.
C17_DependenciesAcyclic ==
    \A a \in Templates : a \notin DependsOn(planned.dependencies, a)

\* C17 witness: a frontend, a backend, a database and a writer agent were
\* configured; the frontend agent depends on the database agent through the
\* backend agent.
C17_Witness ==
    /\ {"frontend_vue", "python_backend", "database_engineer", "technical_writer"}
          \subseteq Members(planned.agents)
    /\ "python_backend" \in planned.dependencies["frontend_vue"]
    /\ "database_engineer" \notin planned.dependencies["frontend_vue"]
    /\ "database_engineer" \in DependsOn(planned.dependencies, "frontend_vue")

\* The templates the specification names for r: those the table maps a
\* technology of r to, the writer, qa with has_testing, devops with
\* has_deployment.
ExpectedAgents(r) ==
    {n \in Templates :
        \/ \E t \in r.technologies :
              t \in DOMAIN technology_mapping /\ n \in technology_mapping[t]
        \/ n = "technical_writer"
        \/ n = "qa_engineer" /\ r.has_testing
        \/ n = "devops_engineer" /\ r.has_deployment}

PhaseNames ==
    <<"Setup & Infrastructure", "Backend Development", "Frontend Development",
      "Testing & Documentation">>

\* the templates each phase takes
PhaseTemplates ==
    <<{"database_engineer", "devops_engineer"}, {"python_backend"},
      {"frontend_vue", "frontend_react"}, {"qa_engineer", "technical_writer"}>>

\* C19: the phases come in the fixed order, each with its name, its kind of
\* agents and its mode (setup and testing parallel, backend and frontend
\* sequential); no phase is empty; every agent is in exactly one phase, once;
\* and for the agents of a project with no technology and no flag the plan
\* is the single phase Testing & Documentation holding the writer.
C19_PlanPhases ==
    LET phases == planned.phases
        places(a) == {<<p, i>> \in (1..Len(phases)) \X (1..Len(planned.agents)) :
                        i <= Len(phases[p].agents) /\ phases[p].agents[i] = a}
    IN  /\ \A p \in 1..Len(phases) :
              /\ phases[p].phase \in 1..4
              /\ phases[p].name = PhaseNames[phases[p].phase]
              /\ phases[p].parallel = (phases[p].phase \in {1, 4})
              /\ phases[p].agents # <<>>
              /\ Members(phases[p].agents) \subseteq PhaseTemplates[phases[p].phase]
              /\ p > 1 => phases[p - 1].phase < phases[p].phase
        /\ \A a \in Members(planned.agents) : Cardinality(places(a)) = 1
        /\ ( /\ planned.agents # <<>>
             /\ Members(planned.agents) =
                   determine_required_agents([technologies |-> {},
                                              has_testing |-> FALSE,
                                              has_deployment |-> FALSE]) )
           => phases = <<[phase |-> 4, name |-> "Testing & Documentation",
                          agents |-> <<"technical_writer">>, parallel |-> TRUE]>>

\* C19 witness: agents of all seven templates were planned, in four phases.
C19_Witness ==
    /\ Len(planned.agents) = 7
    /\ Len(planned.phases) = 4
    /\ planned.phases[3].agents = <<"frontend_react", "frontend_vue">>

BeforeLastCall(a) ==
    IF \E i \in DOMAIN changes : changes[i][1] = a
    THEN changes[CHOOSE i \in DOMAIN changes :
                    /\ changes[i][1] = a
                    /\ \A j \in DOMAIN changes : changes[j][1] = a => i <= j][2]
    ELSE agent_states[a].lifecycle_state

get_workflow_status(w) ==
    IF w \notin active_workflows
    THEN [error |-> "Workflow not found"]
    ELSE [error |-> "",
          workflow_id |-> w,
          agents |-> [a \in {b \in workflow_agents[w] :
                               agent_states[b] # AbsentState} |->
                         agent_states[a]]]

\* C22: get_workflow_status(w) is not an error after a cancel_workflow(w) of
\* a workflow w that was created (it reports the workflow, as Cancelled).
C22_StatusAfterCancel ==
    [][\A w \in Workflows :
          (w \in active_workflows /\ CancelWorkflow(w))
          => get_workflow_status(w)'.error = ""]_vars

(***************************************************************************)
(* Claims about the fan-out of the MessageBus                              *)
(***************************************************************************)
\* after the step, message m is in agent a's queue, or a has taken it out
\* already
Served(a, m) ==
    \/ \E i \in DOMAIN agent_channels'[a] : agent_channels'[a][i].id = m.id
    \/ last_got'[<<a, m.sender>>] >= m.id

\* C23: a message that is fanned out (empty recipient, or type BROADCAST even
\* with a recipient named) is never in its sender's queue and at most once in
\* any queue; and when its fan-out ends, every agent that was registered when
\* it was routed and is registered now, other than the sender, has got it.
C23_BroadcastReachesAll ==
    /\ [](\A a \in BusAgents : \A i, j \in DOMAIN agent_channels[a] :
             /\ is_broadcast(agent_channels[a][i])
                   => agent_channels[a][i].sender # a
             /\ agent_channels[a][i].id = agent_channels[a][j].id => i = j)
    /\ [][( /\ DispatcherRoutes
            /\ is_broadcast(Head(message_queue))
            /\ dispatcher'.pc = "idle" )
          => \A a \in Registered \ {Head(message_queue).sender} :
                Served(a, Head(message_queue))]_vars
    /\ [][( /\ DispatcherResumes
            /\ dispatcher.iterating
            /\ dispatcher'.pc = "idle" )
          => \A a \in Registered \ {dispatcher.msg.sender} :
                (\E k \in DOMAIN dispatcher.keys : dispatcher.keys[k] = a)
                => Served(a, dispatcher.msg)]_vars

C25_SenderReturns ==
    \A id \in MsgIds : (response_of[id] = "pending") ~> (response_of[id] # "pending")

\* C25: the request to D, which is not registered, has been taken from the
\* outbound queue and dropped, and its sender has returned without a response.
C25_Witness ==
    /\ sent = 1
    /\ running
    /\ message_queue = <<>>
    /\ dispatcher.pc = "idle"
    /\ Registered = {"B"}
    /\ agent_channels["B"] = <<>>
    /\ last_got[<<"B", "A">>] = 0
    /\ response_of[1] = "timeout"

\* C26: register_agent for an agent that is registered already (the call a
\* further AgentProtocol of the agent makes with its callback) leaves the
\* agent's queue and the number of its callbacks, which is the number of
\* callback invocations for every message delivered to it, as they were.
C26_RegisterAgain ==
    [][\A i \in ResponderInputs :
          (i[1] \in Registered /\ RegisterAgent(i[1], i[2]))
          => /\ agent_channels'[i[1]] = agent_channels[i[1]]
             /\ Len(subscribers'[i[1]]) = Len(subscribers[i[1]])]_vars

(***************************************************************************)
(* Claims about hooks, persistence and recovery in the LifecycleManager    *)
(***************************************************************************)
\* C27: a transition_state to RUNNING that is valid, made while a hook
\* registered for RUNNING raises (the agent has its protocol and the store is
\* up), is not blocked: the new state is set, broadcast and persisted.
C27_RaisingHookDoesNotBlock ==
    [][\A a \in Subjects :
          ( /\ hook_raises("running")
            /\ "running" \in valid_transitions(agent_states[a].lifecycle_state)
            /\ agent_protocols[a] # "none"
            /\ store = "up"
            /\ TransitionState(a, "running") )
          => /\ agent_states'[a].lifecycle_state = "running"
             /\ last_event'[a] = "running"
             /\ persisted'[a].lifecycle_state = "running"]_vars

\* for every agent the manager holds, the lifecycle state saved last is the
\* one in memory
PersistedIsMemory ==
    \A a \in LcAgents :
        agent_states[a] # AbsentState
        => persisted[a].lifecycle_state = agent_states[a].lifecycle_state

\* C28: between the operations of the manager the persisted lifecycle state
\* of every agent equals its in-memory state; an operation that starts from
\* such a state, with the store up and no hook that raises, ends in one.
C28_TransitionsPersisted ==
    [][( /\ PersistedIsMemory
         /\ store = "up"
         /\ \A st \in LifecycleStates : ~hook_raises(st) )
       => PersistedIsMemory']_vars

\* agent a answers a REQUEST: one of its callbacks on the bus belongs to a
\* protocol that has the handler
AnswersRequests(a) ==
    \E i \in DOMAIN protocol_callbacks[a] : protocol_callbacks[a][i] = "handlers"

\* C29: after a recover_agent(a) that returns True (the READY transition is
\* saved) for an agent whose persisted state was Error or Suspended, a is
\* Ready and a REQUEST sent to it is answered by a handler.
C29_RecoveredAgentAnswers ==
    [][\A a \in LcAgents :
          ( /\ load_state(LcFields, a).lifecycle_state \in {"error", "suspended"}
            /\ RecoverAgent(a)
            /\ persisted'[a].lifecycle_state = "ready" )
          => /\ agent_states'[a].lifecycle_state = "ready"
             /\ AnswersRequests(a)']_vars

(***************************************************************************)
(* Claims about StatePersistence.restore_checkpoint                        *)
(***************************************************************************)
\* C30: a restore_checkpoint(a, -1) made after a create_checkpoint(a, p)
\* that was saved returns p, the data of the newest checkpoint, and leaves
\* the agent's checkpoints as they are, with the cache entry present or
\* expired.
C30_RestoreReturnsNewest ==
    [][\A a \in Subjects :
          ( /\ checkpoints[a] # <<>>
            /\ saved_checkpoints[a] = checkpoints[a]
            /\ store = "up"
            /\ RestoreCheckpoint(a) )
          => /\ restored'[a] = checkpoints[a][Len(checkpoints[a])].data
             /\ checkpoints' = checkpoints
             /\ saved_checkpoints' = saved_checkpoints]_vars

\* C31: after any sequence of execute_agent calls on one context,
\* context.previous_agents holds at most the limit of entries (20 in the
\* source, PreviousAgentsLimit here).
C31_PreviousAgentsBounded == Len(previous_agents) <= PreviousAgentsLimit

\* C32: in the report of execute_pool every agent id listed in an executed
\* phase has an entry, and a phase that lists an agent without an instance
\* is reported as failed, and so is the overall result.
C32_EveryAgentReported ==
    \A p \in 1..Len(results.phases) :
        LET listed == Members(execution_plan[p].agents) IN
        /\ Members(results.phases[p].agents) = listed
        /\ listed \ active_agents # {}
              => ~results.phases[p].success /\ ~results.overall_success

(***************************************************************************)
(* Claims about AgentDarwin                                                *)
(***************************************************************************)
\* C33: evolve_agent on an agent with recorded metrics proposes a candidate
\* whose strategy follows the score buckets (below 0.30 expansion, below
\* 0.50 mutation, below 0.70 pruning); an agent whose score is at least
\* 0.70 and whose error_rate exceeds 0.20 gets a reinforcement proposal of
\* low risk.
C33_StrategyFollowsScore ==
    [][\A a \in DarwinAgents :
          (EvolveAgent(a) /\ a \in DOMAIN performance_history) =>
              LET m == performance_history[a]
                  score == calculate_overall_score(m)
                  c == evolved'[a]
              IN  /\ c.agent_id = a
                  /\ score < 300 => c.strategy = "expansion"
                  /\ (score >= 300 /\ score < 500) => c.strategy = "mutation"
                  /\ (score >= 500 /\ score < 700) => c.strategy = "pruning"
                  /\ (score >= 700 /\ m.error_rate > 2)
                        => c.strategy = "reinforcement" /\ c.risk_level = "low"]_vars

\* C34: in a sequential phase an agent's execute starts only after the
\* execute of every agent placed before it has ended, and by then the
\* output of each earlier agent that succeeded with an output is in
\* context.variables under that agent's key; the end of a failed execute
\* writes no key.
C34_SequentialPassesOutput ==
    /\ [](( pool_run.pc = "in_phase" /\ ~CurrentPhase.parallel ) =>
            \A i, j \in 1..Len(CurrentPhase.agents) :
                ( i < j /\ CurrentPhase.agents[j] \in pool_run.executing \cup pool_run.ran )
                => LET k == CurrentPhase.agents[i] IN
                   /\ k \notin pool_run.executing
                   /\ pool_run.agent_results[k] # "none"
                   /\ pool_run.agent_results[k] = "ok" => pool_run.variables[k] = k)
    /\ [][\A a \in Templates :
             ( AgentExecutes(a, "failed") \/ AgentNotFound(a) )
             => pool_run'.variables = pool_run.variables]_vars

\* The second agent of a sequential phase is executing after the first one
\* succeeded with an output.
C34_Witness ==
    /\ pool_run.pc = "in_phase" /\ ~CurrentPhase.parallel
    /\ \E i, j \in 1..Len(CurrentPhase.agents) :
          /\ i < j
          /\ CurrentPhase.agents[j] \in pool_run.executing
          /\ pool_run.agent_results[CurrentPhase.agents[i]] = "ok"
          /\ pool_run.variables[CurrentPhase.agents[i]] = CurrentPhase.agents[i]

\* C35: terminate_agent on an agent that is Ready, Running, Paused,
\* Suspended or Error, that has its protocol and that no active agent depends
\* on (the store is up, no hook raises) ends with the agent unregistered,
\* its Terminated state persisted and its entry gone from agent_states.
C35_TerminateCompletes ==
    [][\A a \in LcAgents :
          ( /\ agent_states[a].lifecycle_state
                  \in {"ready", "running", "paused", "suspended", "error"}
            /\ agent_protocols[a] # "none"
            /\ can_terminate(LcFields, a)
            /\ store = "up"
            /\ ~hook_raises("terminating") /\ ~hook_raises("terminated")
            /\ TerminateAgent(a, FALSE) )
          => /\ agent_protocols'[a] = "none"
             /\ persisted'[a].lifecycle_state = "terminated"
             /\ agent_states'[a] = AbsentState]_vars

\* the agents whose execute has ended in the current run of execute_pool
Finished ==
    Members(results.completed_agents) \cup Members(results.failed_agents)
        \cup pool_run.ran

\* C36: while execute_pool runs, an agent's execute has started only if every
\* agent listed in its dependencies has finished its own execute.
C36_DependenciesFinishFirst ==
    pool_run.pc = "in_phase" =>
        \A a \in pool_run.executing \cup pool_run.ran :
            dependencies[a] \subseteq Finished

(***************************************************************************)
(* Claims about the CircuitBreaker under concurrent calls                  *)
(***************************************************************************)
\* the edges of the breaker's state diagram
BreakerEdges ==
    {<<"closed", "open">>, <<"open", "half-open">>,
     <<"half-open", "closed">>, <<"half-open", "open">>}

\* C37: with several calls in flight, the breaker's state changes only along
\* Closed->Open, Open->HalfOpen, HalfOpen->Closed and HalfOpen->Open; it
\* never goes from Open to Closed directly.
C37_StateEdges ==
    [][breaker'.state # breaker.state
          => <<breaker.state, breaker'.state>> \in BreakerEdges]_vars

\* C38: in every reachable state of the breaker, whatever the interleaving
\* of the calls, state is closed if and only if failure_count is below
\* failure_threshold.
C38_ClosedIffBelowThreshold ==
    (breaker.state = "closed") <=> (breaker.failure_count < FailureThreshold)

\* C38 witness: the circuit is half-open with failure_count at the threshold
\* or above while two calls are in flight at the same time.
C38_Witness ==
    /\ breaker.state = "half-open"
    /\ breaker.failure_count >= FailureThreshold
    /\ \E c, d \in CallIds :
          c # d /\ calls[c].pc = "running" /\ calls[d].pc = "running"

(***************************************************************************)
(* Claims about the global queue of the MessageBus                         *)
(***************************************************************************)
\* Ids of the messages that were taken for routing and handed to a recipient:
\* those in an inbound queue, the one the dispatcher is delivering, those
\* given to callbacks and those dequeued by get_messages.
Delivered ==
    UNION {{agent_channels[a][i].id : i \in 1..Len(agent_channels[a])} : a \in BusAgents}
    \cup (IF dispatcher.pc = "idle" THEN {} ELSE {dispatcher.msg.id})
    \cup {task.id : task \in callback_tasks}
    \cup {last_got[p] : p \in BusAgents \X Senders}

\* C39: the global queue never holds more than max_queue_size messages; a
\* send_message on a full queue is not refused: it discards the oldest
\* message not yet routed and appends the new one; and a discarded message is
\* never delivered to any recipient.
C39_FullQueueDiscardsOldest ==
    /\ [](Len(message_queue) <= MaxQueueSize)
    /\ [](discarded \cap Delivered = {})
    /\ []((sent < MaxSends) => \A t \in MessageTemplates : ENABLED SendMessage(t))
    /\ [][\A t \in MessageTemplates :
             (Len(message_queue) = MaxQueueSize /\ SendMessage(t))
             => /\ Len(message_queue') = MaxQueueSize
                /\ SubSeq(message_queue', 1, MaxQueueSize - 1) = Tail(message_queue)
                /\ message_queue'[MaxQueueSize].id = sent + 1
                /\ discarded' = discarded \cup {Head(message_queue).id}]_vars

\* C39 witness: message 1 was discarded by the third send on the full queue,
\* and a message sent after it has reached a recipient.
C39_Witness ==
    /\ discarded = {1}
    /\ \E a \in BusAgents : \E i \in 1..Len(agent_channels[a]) :
          agent_channels[a][i].id > 1

(***************************************************************************)
(* Claims about AgentManager.register_agent                                *)
(***************************************************************************)
\* C40: the manager never holds more than max_agents agents, the keys of
\* circuit_breakers are the keys of agents, and an agent leaves the manager
\* only in a registration made at the limit, and then it is the agent whose
\* registration is the oldest.
C40_EvictsOldestRegistered ==
    /\ [](Len(agent_keys) <= MaxAgents)
    /\ [](Members(agent_keys) = breaker_keys)
    /\ [][LET gone == Members(agent_keys) \ Members(agent_keys') IN
          gone # {} => /\ Len(agent_keys) >= MaxAgents
                       /\ gone = {Head(registration_order)}]_vars

====
